---- MODULE Spec2Model ----
(***************************************************************************)
(* Model of the queue monitoring and alerting engine of                    *)
(* scripts/gps_monitor.py (ProductionGPSMonitor, AlertRecoveryTracker) and *)
(* of the /health responder of scripts/health_server.py.                   *)
(*                                                                         *)
(* Time is counted in whole units; the clock `now` stands for time.time(). *)
(* The collection loop is one process whose position is `pc`; the          *)
(* configuration watcher's callback and the health responder are the       *)
(* other activities.                                                       *)
(***************************************************************************)
EXTENDS Integers, Sequences, FiniteSets, TLC

VARIABLES
    now,              \* time.time()
    pc,               \* position of the collection loop (run / collect_metrics)
    queue_data,       \* collect_metrics: the snapshot of this cycle, in server order
    idx,              \* collect_metrics: number of snapshot items already processed
    total_backlog,    \* collect_metrics local
    core_healthy,     \* collect_metrics local
    total_core,       \* collect_metrics local
    last_alert_time,  \* ProductionGPSMonitor.last_alert_time : alert key -> time
    active_alerts,    \* AlertRecoveryTracker.active_alerts : queue name -> record
    config,           \* ProductionGPSMonitor.config : the last file handed to json.load
    target_queues,    \* ProductionGPSMonitor.target_queues (list)
    core_queues,      \* ProductionGPSMonitor.core_queues (list)
    support_queues,   \* ProductionGPSMonitor.support_queues (list)
    queue_thresholds, \* ProductionGPSMonitor.queue_thresholds : queue name -> dict
    rl,               \* position and locals of a reload_configuration call in progress
    ev,               \* history: what the last step did (notifications, decisions)
    run,              \* history: per alert key, the current run of regular true cycles
    cycles,           \* history: number of iterations of the loop started so far
    reloads,          \* history: number of reload_configuration calls so far
    items,            \* history: number of snapshot items fetched so far
    sp,               \* check_queue_alerts taken statement by statement: position and locals
    fired_at,         \* history: alert key -> time of its last firing notification (stepwise)
    lock,             \* AlertRecoveryTracker.lock: "free", or the thread that holds it
    shutdown_notification_sent, \* ProductionGPSMonitor.shutdown_notification_sent
    frames,           \* main thread: the cleanup() activations in progress, innermost last
    proc,             \* main thread: "running", "finally" (run's finally clause) or "exited"
    shutdown_sent,    \* history: number of system_shutdown notifications handed to the sender
    signals,          \* history: number of SIGINT / SIGTERM deliveries so far
    discord_ok,       \* environment: whether the webhook accepts a delivery at present
    failed_keys,      \* history: alert keys whose last firing notification was not delivered
    failed_recoveries, \* history: queues whose last resolution notification was not delivered
    accepted,         \* history: the last file that passed validate_configuration
    discovered_queues,       \* ProductionGPSMonitor.discovered_queues (set)
    queue_discovery_enabled, \* ProductionGPSMonitor.queue_discovery_enabled
    influx_writer,    \* ProductionGPSMonitor.influx_writer is an object (not None)
    queue_categories, \* InfluxDBWriter.queue_categories : queue name -> category
    config_file       \* environment: the file at QUEUE_CONFIG_FILE as it is on disk

cfgVars == <<config, target_queues, core_queues, support_queues, queue_thresholds>>
loopVars == <<pc, queue_data, idx, total_backlog, core_healthy, total_core>>
trackerVars == <<last_alert_time, active_alerts>>
vars == <<now, pc, queue_data, idx, total_backlog, core_healthy, total_core,
          last_alert_time, active_alerts, config, target_queues, core_queues,
          support_queues, queue_thresholds, rl, ev, run, cycles, reloads, items,
          sp, fired_at, lock, shutdown_notification_sent, frames, proc, shutdown_sent,
          signals, discord_ok, failed_keys, failed_recoveries, accepted,
          discovered_queues,
          queue_discovery_enabled, influx_writer, queue_categories,
          config_file>>
stepVars == <<sp, fired_at, lock>>
shutVars == <<shutdown_notification_sent, frames, proc, shutdown_sent, signals>>
faultVars == <<discord_ok, failed_keys, failed_recoveries>>
discVars == <<discovered_queues, queue_discovery_enabled>>
writerVars == <<influx_writer, queue_categories, config_file>>
extVars == <<stepVars, shutVars, faultVars, accepted, discVars, writerVars>>

----------------------------------------------------------------------------
(* Bounds of the model and values of the environment inputs.               *)

\* COLLECTION_INTERVAL, in time units
Interval == 2
\* ALERT_COOLDOWN_MINUTES * 60, in time units
Cooldown == 5
\* the clock does not run past this value
MaxTime == 6
\* a cycle may take up to Interval + MaxOverrun time units
MaxOverrun == 1
\* the loop starts at most this many iterations
MaxCycles == 4
\* the snapshots of a run hold at most this many items in total
MaxItems == 4
\* the watcher calls reload_configuration at most this many times
MaxReloads == 1
\* ... and at most this many times where only its calls are followed
MaxReloadSeq == 2
\* SIGINT and SIGTERM are delivered at most this many times in all
MaxSignals == 3
\* ... and at most this many times where the cycles with a snapshot are followed
MaxTickSignals == 1

\* program constants
DefaultHighBacklog == 1000
RecoveryMaxReady == 50
SystemBacklogThreshold == 10000

\* messages_ready values a snapshot may carry
ReadyVals == {0, 40, 12000}
\* consumers values a snapshot may carry
ConsumerVals == {0, 1}
\* messages_ready values at and next to the thresholds of the files below
NearReadyVals == {0, 1, 99, 100, 101, 50000, 50001}
NearConsumerVals == {0, 1, 2}

----------------------------------------------------------------------------
(* Configuration files.  A file is what json.load returns (or fails to).   *)

EmptyMap == [k \in {} |-> 0]

Thr(hb, nca) ==
    [high_backlog |-> hb, critical_lag_seconds |-> 60, no_consumers_alert |-> nca]

Entry(name, category, has_thr, thr) ==
    [name |-> name, category |-> category, has_thresholds |-> has_thr, thresholds |-> thr]

\* q1 CORE, q2 SUPPORT
FileA == [readable |-> TRUE, section |-> TRUE,
          queues |-> << Entry("q1", "CORE", TRUE, Thr(100, TRUE)),
                        Entry("q2", "SUPPORT", TRUE, Thr(100, FALSE)) >>]
\* q1 becomes SUPPORT with a very high threshold, q2 is removed
FileB == [readable |-> TRUE, section |-> TRUE,
          queues |-> << Entry("q1", "SUPPORT", TRUE, Thr(50000, TRUE)) >>]
\* q1 has no thresholds, q2 has no category and lacks high_backlog
FileBadQueues == [readable |-> TRUE, section |-> TRUE,
          queues |-> << Entry("q1", "CORE", FALSE, EmptyMap),
                        Entry("q2", "", TRUE,
                              [critical_lag_seconds |-> 60, no_consumers_alert |-> TRUE]) >>]
\* no 'queue_monitoring' section
FileNoSection == [readable |-> TRUE, section |-> FALSE, queues |-> << >>]
\* not JSON at all: json.load raises
FileUnreadable == [readable |-> FALSE, section |-> FALSE, queues |-> << >>]

Files == {FileA, FileB, FileBadQueues, FileNoSection, FileUnreadable}

RequiredThresholds == {"high_backlog", "critical_lag_seconds", "no_consumers_alert"}

\* no reload_configuration call is in progress
ReloadIdle == [pc |-> "idle", f |-> FileUnreadable, i |-> 0,
               old_targets |-> {}, old_core |-> {}]

----------------------------------------------------------------------------
(* parse_queue_configuration and validate_configuration                    *)

\* queues_config = self.config.get('queue_monitoring', {}).get('queues', {})
QueuesConfig(f) == IF f.section THEN f.queues ELSE << >>

Names(entries) == [i \in 1..Len(entries) |-> entries[i].name]

SeqToSet(s) == {s[i] : i \in 1..Len(s)}

IsCoreEntry(e) == e.category = "CORE"

IsSupportEntry(e) == e.category # "CORE"

ParseTargets(f) == Names(QueuesConfig(f))

ParseCore(f) == Names(SelectSeq(QueuesConfig(f), IsCoreEntry))

ParseSupport(f) == Names(SelectSeq(QueuesConfig(f), IsSupportEntry))

\* queue_config.get('thresholds', {})
EntryThresholds(e) == IF e.has_thresholds THEN e.thresholds ELSE EmptyMap

ParseThresholds(f) ==
    LET qc == QueuesConfig(f)
    IN  [q \in SeqToSet(Names(qc)) |->
            EntryThresholds(qc[CHOOSE i \in 1..Len(qc) : qc[i].name = q])]

EntryValid(e) ==
    /\ e.category \in {"CORE", "SUPPORT"}
    /\ e.has_thresholds
    /\ RequiredThresholds \subseteq DOMAIN e.thresholds

\* validate_configuration raises nothing
ValidConfiguration(f) ==
    /\ f.section
    /\ \A i \in 1..Len(f.queues) : EntryValid(f.queues[i])

ValidFiles == {f \in Files : f.readable /\ ValidConfiguration(f)}

----------------------------------------------------------------------------
(* Threshold lookups and classification                                    *)

GetQueueThreshold(qt, q, threshold_type, default_value) ==
    IF q \in DOMAIN qt /\ threshold_type \in DOMAIN qt[q]
    THEN qt[q][threshold_type]
    ELSE default_value

IsCoreQueue(cq, q) == q \in SeqToSet(cq)

ShouldAlertNoConsumers(qt, q) == GetQueueThreshold(qt, q, "no_consumers_alert", FALSE)

\* base_severity = "critical" if is_core else "warning"
BaseSeverity(cq, q) == IF IsCoreQueue(cq, q) THEN "critical" ELSE "warning"

\* the "severity" field of the alert_data of each kind of notification
AlertSeverity(alert_type, cq, q) ==
    CASE alert_type = "queue_backlog"  -> BaseSeverity(cq, q)
      [] alert_type = "no_consumers"   -> "critical"
      [] alert_type = "stalled_queue"  -> "critical"
      [] alert_type = "recovery"       -> "info"
      [] alert_type = "system_backlog" -> "warning"
      [] alert_type = "system_failure" -> "critical"
      [] OTHER                         -> "info"

Severities(sent, cq, q) == [i \in 1..Len(sent) |-> AlertSeverity(sent[i], cq, q)]

GetQueueStatusIcon(qt, q, ready, consumers) ==
    IF consumers = 0 /\ ready > 0 THEN "CRITICAL"
    ELSE IF ready > GetQueueThreshold(qt, q, "high_backlog", DefaultHighBacklog) THEN "WARNING"
    ELSE "HEALTHY"

----------------------------------------------------------------------------
(* Alert keys, cooldown and the recovery tracker                           *)

Queues == {"q1", "q2"}

\* variant: the new category is looked up in the queues that are not CORE
ConfigChanges_Swapped(old_targets, old_core, new_targets, new_core) ==
    [added   |-> new_targets \ old_targets,
     removed |-> old_targets \ new_targets,
     changed |-> {q \in old_targets \cap new_targets :
                     (IF q \in old_core THEN "CORE" ELSE "SUPPORT") #
                     (IF q \in new_targets \ new_core THEN "CORE" ELSE "SUPPORT")}]

\* variant: the backlog key leaves out the queue name
BacklogKey_Shared(q) == <<"backlog", "">>

BacklogKey(q) == <<"backlog", q>>
NoConsumersKey(q) == <<"no_consumers", q>>
StalledKey(q) == <<"stalled", q>>
SystemBacklogKey == <<"system_backlog", "">>
SystemFailureKey == <<"critical_system_failure", "">>

QueueKeys(q) == {BacklogKey(q), NoConsumersKey(q), StalledKey(q)}
SystemKeys == {SystemBacklogKey, SystemFailureKey}
AllKeys == UNION {QueueKeys(q) : q \in Queues} \cup SystemKeys

\* variant: any later evaluation is let through
ShouldSendAlert_NoWindow(lat, alert_key, t) ==
    \/ alert_key \notin DOMAIN lat
    \/ t - lat[alert_key] > 0

\* the value should_send_alert returns
ShouldSendAlert(lat, alert_key, t) ==
    \/ alert_key \notin DOMAIN lat
    \/ t - lat[alert_key] > Cooldown

\* variant: the time is recorded whether or not the alert is let through
LastAlertAfter_Always(lat, alert_key, t) ==
    [k \in DOMAIN lat \cup {alert_key} |-> IF k = alert_key THEN t ELSE lat[k]]

\* last_alert_time after should_send_alert(alert_key) at time t
LastAlertAfter(lat, alert_key, t) ==
    IF ShouldSendAlert(lat, alert_key, t)
    THEN [k \in DOMAIN lat \cup {alert_key} |-> IF k = alert_key THEN t ELSE lat[k]]
    ELSE lat

TrackAlert(aa, q, alert_type, t) ==
    [k \in DOMAIN aa \cup {q} |->
        IF k = q THEN [type |-> alert_type, timestamp |-> t, resolved |-> FALSE]
        ELSE aa[k]]

\* variant: is_recovered without the absolute limit on messages_ready
IsRecovered_NoSizeLimit(ready, consumers, threshold) ==
    /\ 10 * ready < 3 * threshold
    /\ consumers > 0

\* variant: is_recovered without the test of the consumers
IsRecovered_NoConsumerTest(ready, consumers, threshold) ==
    /\ 10 * ready < 3 * threshold
    /\ ready < RecoveryMaxReady

\* is_recovered; messages_ready < threshold * 0.3 compared in tenths
IsRecovered(ready, consumers, threshold) ==
    /\ 10 * ready < 3 * threshold
    /\ consumers > 0
    /\ ready < RecoveryMaxReady

\* variant: check_recovery does not look at the resolved flag
CheckRecovery_IgnoresResolved(aa, qt, q, ready, consumers) ==
    /\ q \in DOMAIN aa
    /\ IsRecovered(ready, consumers,
                   GetQueueThreshold(qt, q, "high_backlog", DefaultHighBacklog))

\* the value check_recovery returns (it sends the resolution when TRUE)
CheckRecovery(aa, qt, q, ready, consumers) ==
    /\ q \in DOMAIN aa
    /\ ~aa[q].resolved
    /\ IsRecovered(ready, consumers,
                   GetQueueThreshold(qt, q, "high_backlog", DefaultHighBacklog))

\* variant: the record is marked only when the resolution was delivered
ActiveAfterRecovery_IfDelivered(aa, qt, q, ready, consumers) ==
    IF CheckRecovery(aa, qt, q, ready, consumers) /\ discord_ok
    THEN [aa EXCEPT ![q].resolved = TRUE]
    ELSE aa

\* variant: the record is not marked once its resolution is sent
ActiveAfterRecovery_KeepsOpen(aa, qt, q, ready, consumers) == aa

\* active_alerts after check_recovery
ActiveAfterRecovery(aa, qt, q, ready, consumers) ==
    IF CheckRecovery(aa, qt, q, ready, consumers)
    THEN [aa EXCEPT ![q].resolved = TRUE]
    ELSE aa

----------------------------------------------------------------------------
(* check_queue_alerts and check_system_alerts, as folds over an evaluation *)
(* state: lat / aa are last_alert_time / active_alerts so far, sent is the *)
(* list of alert_type values handed to send_discord_alert, cond the keys   *)
(* whose condition was true, fired the keys should_send_alert let through. *)

EvalStart(lat, aa) ==
    [lat |-> lat, aa |-> aa, sent |-> << >>, cond |-> {}, fired |-> {}]

\* variant: a delivery that fails is attempted once more
SendDiscordAlert_Retries(sent, alert_type) ==
    IF discord_ok THEN Append(sent, alert_type)
    ELSE Append(Append(sent, alert_type), alert_type)

\* send_discord_alert: one call of send_alert, one POST, whatever it returns;
\* `sent` lists the deliveries attempted
SendDiscordAlert(sent, alert_type) == Append(sent, alert_type)

\* variant: track_alert is called for a suppressed condition as well
AlertCheck_TracksSuppressed(st, holds, alert_key, alert_type, q, track, t) ==
    IF ~holds THEN st
    ELSE IF ShouldSendAlert(st.lat, alert_key, t)
         THEN [lat   |-> LastAlertAfter(st.lat, alert_key, t),
               aa    |-> IF track THEN TrackAlert(st.aa, q, alert_type, t) ELSE st.aa,
               sent  |-> SendDiscordAlert(st.sent, alert_type),
               cond  |-> st.cond \cup {alert_key},
               fired |-> st.fired \cup {alert_key}]
         ELSE [st EXCEPT !.lat = LastAlertAfter(st.lat, alert_key, t),
                         !.aa = IF track THEN TrackAlert(st.aa, q, alert_type, t) ELSE @,
                         !.cond = @ \cup {alert_key}]

\* one "if <condition>: if self.should_send_alert(key): send; track_alert" block
AlertCheck(st, holds, alert_key, alert_type, q, track, t) ==
    IF ~holds THEN st
    ELSE IF ShouldSendAlert(st.lat, alert_key, t)
         THEN [lat   |-> LastAlertAfter(st.lat, alert_key, t),
               aa    |-> IF track THEN TrackAlert(st.aa, q, alert_type, t) ELSE st.aa,
               sent  |-> SendDiscordAlert(st.sent, alert_type),
               cond  |-> st.cond \cup {alert_key},
               fired |-> st.fired \cup {alert_key}]
         ELSE [st EXCEPT !.lat = LastAlertAfter(st.lat, alert_key, t),
                         !.cond = @ \cup {alert_key}]

\* the recovery check that opens check_queue_alerts
RecoveryCheck(st, qt, q, ready, consumers) ==
    IF CheckRecovery(st.aa, qt, q, ready, consumers)
    THEN [st EXCEPT !.aa = ActiveAfterRecovery(st.aa, qt, q, ready, consumers),
                    !.sent = Append(@, "recovery")]
    ELSE st

\* variant: a count equal to the threshold is a backlog
HighBacklogCondition_Inclusive(qt, q, ready) ==
    ready >= GetQueueThreshold(qt, q, "high_backlog", DefaultHighBacklog)

HighBacklogCondition(qt, q, ready) ==
    ready > GetQueueThreshold(qt, q, "high_backlog", DefaultHighBacklog)

NoConsumersCondition(qt, q, ready, consumers) ==
    ShouldAlertNoConsumers(qt, q) /\ consumers = 0 /\ ready > 0

\* variant: a queue without consumers is stalled whatever it holds
StalledCondition_AnyCount(ready, consumers) == consumers = 0

StalledCondition(ready, consumers) == ready = 0 /\ consumers = 0

CheckQueueAlerts(lat, aa, qt, q, ready, consumers, t) ==
    LET s0 == RecoveryCheck(EvalStart(lat, aa), qt, q, ready, consumers)
        s1 == AlertCheck(s0, HighBacklogCondition(qt, q, ready),
                         BacklogKey(q), "queue_backlog", q, TRUE, t)
        s2 == AlertCheck(s1, NoConsumersCondition(qt, q, ready, consumers),
                         NoConsumersKey(q), "no_consumers", q, TRUE, t)
    IN  AlertCheck(s2, StalledCondition(ready, consumers),
                   StalledKey(q), "stalled_queue", q, TRUE, t)

\* variant: the total is compared with twice the threshold
SystemBacklogCondition_Doubled(backlog) == backlog > 2 * SystemBacklogThreshold

SystemBacklogCondition(backlog) == backlog > SystemBacklogThreshold

\* core_healthy / total_core < 0.5
SystemFailureCondition(healthy, core) == core > 0 /\ 2 * healthy < core

CheckSystemAlerts(lat, aa, backlog, healthy, core, t) ==
    LET s1 == AlertCheck(EvalStart(lat, aa), SystemBacklogCondition(backlog),
                         SystemBacklogKey, "system_backlog", "", FALSE, t)
    IN  AlertCheck(s1, SystemFailureCondition(healthy, core),
                   SystemFailureKey, "system_failure", "", FALSE, t)

----------------------------------------------------------------------------
(* History variables                                                       *)

NoEvent ==
    [op |-> "init", q |-> "", ready |-> 0, consumers |-> 0, threshold |-> 0,
     had_record |-> FALSE, was_resolved |-> FALSE,
     cond |-> {}, fired |-> {}, sent |-> << >>, severity |-> << >>, outcome |-> "",
     server |-> {},
     total |-> 0, core |-> 0, support |-> 0]

NoRun == [n |-> 0, sent |-> 0, last |-> 0]

\* the run of a key after a cycle at time t that found its condition `holds`
RunStep(r, holds, fired, t) ==
    IF ~holds THEN NoRun
    ELSE IF r.n > 0 /\ r.last = t - Interval
         THEN [n |-> r.n + 1, sent |-> r.sent + (IF fired THEN 1 ELSE 0), last |-> t]
         ELSE IF fired THEN [n |-> 1, sent |-> 1, last |-> t] ELSE NoRun

RunAfter(keys, st, t) ==
    [k \in AllKeys |->
        IF k \in keys THEN RunStep(run[k], k \in st.cond, k \in st.fired, t) ELSE run[k]]

\* what send_discord_alert returned for the notifications of an evaluation
DeliveryOutcome(st) ==
    IF st.sent = << >> THEN "" ELSE IF discord_ok THEN "delivered" ELSE "undelivered"

\* the keys whose last firing notification was not delivered, after an evaluation
FailedAfter(st) ==
    IF discord_ok THEN failed_keys \ st.fired ELSE failed_keys \cup st.fired

\* the queues whose last resolution notification was not delivered, after an
\* evaluation of q
FailedRecoveriesAfter(st, q) ==
    IF "recovery" \notin {st.sent[i] : i \in 1..Len(st.sent)} THEN failed_recoveries
    ELSE IF discord_ok THEN failed_recoveries \ {q} ELSE failed_recoveries \cup {q}

----------------------------------------------------------------------------
(* The collection loop: run / collect_metrics                              *)

\* the order in which the management API lists the queues
ServerOrder == << "q1", "q2" >>

InSet(S, q) == q \in S

\* get_queue_details: the items of the server's queues that are monitored
\* (discover_and_monitor_queues returns set(target_queues): discovery is off)
MonitoredData(present, data) ==
    LET names == SelectSeq(ServerOrder, LAMBDA q : q \in present)
    IN  [i \in 1..Len(names) |->
            [name |-> names[i], ready |-> data[names[i]][1], consumers |-> data[names[i]][2]]]

IdleLoop ==
    /\ queue_data' = << >>
    /\ idx' = 0
    /\ total_backlog' = 0
    /\ core_healthy' = 0
    /\ total_core' = 0

\* variant: the failure of the request is not caught and ends the loop
FetchFails_Fatal ==
    /\ UNCHANGED extVars
    /\ pc = "fetch"
    /\ pc' = "stopped"
    /\ IdleLoop
    /\ ev' = [NoEvent EXCEPT !.op = "fetch", !.outcome = "failed"]
    /\ UNCHANGED <<now, last_alert_time, active_alerts, cfgVars, rl, run, cycles, reloads, items>>

\* the request fails (get_queue_details returns {}): collect_metrics returns
FetchFails ==
    /\ UNCHANGED extVars
    /\ pc = "fetch"
    /\ pc' = "sleep"
    /\ IdleLoop
    /\ ev' = [NoEvent EXCEPT !.op = "fetch", !.outcome = "failed"]
    /\ UNCHANGED <<now, last_alert_time, active_alerts, cfgVars, rl, run, cycles, reloads, items>>

\* the request succeeds and `present` of the monitored queues exist on the
\* server, with counts out of the given sets
FetchFrom(ready_vals, consumer_vals) ==
    /\ UNCHANGED extVars
    /\ pc = "fetch"
    /\ \E present \in SUBSET (SeqToSet(target_queues) \cap Queues) :
       \E data \in [present -> ready_vals \X consumer_vals] :
          /\ items + Cardinality(present) <= MaxItems
          /\ items' = items + Cardinality(present)
          /\ IF present = {}
             THEN /\ pc' = "sleep"
                  /\ IdleLoop
                  /\ ev' = [NoEvent EXCEPT !.op = "fetch", !.outcome = "empty"]
             ELSE /\ pc' = "eval"
                  /\ queue_data' = MonitoredData(present, data)
                  /\ idx' = 0
                  /\ total_backlog' = 0
                  /\ core_healthy' = 0
                  /\ total_core' = Len(core_queues)
                  /\ ev' = [NoEvent EXCEPT !.op = "fetch", !.outcome = "ok"]
    /\ UNCHANGED <<now, last_alert_time, active_alerts, cfgVars, rl, run, cycles, reloads>>

Fetch == FetchFrom(ReadyVals, ConsumerVals)

FetchNearThresholds == FetchFrom(NearReadyVals, NearConsumerVals)

\* one iteration of "for queue_name, queue in queue_data.items()"
EvalQueue ==
    /\ UNCHANGED <<stepVars, shutVars, discord_ok, accepted, discVars, writerVars>>
    /\ pc = "eval"
    /\ idx < Len(queue_data)
    /\ LET item == queue_data[idx + 1]
           q == item.name
           st == CheckQueueAlerts(last_alert_time, active_alerts, queue_thresholds,
                                  q, item.ready, item.consumers, now)
           icon == GetQueueStatusIcon(queue_thresholds, q, item.ready, item.consumers)
       IN  /\ core_healthy' = core_healthy +
                  (IF IsCoreQueue(core_queues, q) /\ icon = "HEALTHY" THEN 1 ELSE 0)
           /\ total_backlog' = total_backlog + item.ready
           /\ last_alert_time' = st.lat
           /\ active_alerts' = st.aa
           /\ run' = RunAfter(QueueKeys(q), st, now)
           /\ failed_keys' = FailedAfter(st)
           /\ failed_recoveries' = FailedRecoveriesAfter(st, q)
           /\ ev' = [NoEvent EXCEPT
                       !.op = "eval", !.q = q, !.ready = item.ready,
                       !.outcome = DeliveryOutcome(st),
                       !.consumers = item.consumers,
                       !.threshold = GetQueueThreshold(queue_thresholds, q,
                                                       "high_backlog", DefaultHighBacklog),
                       !.had_record = q \in DOMAIN active_alerts,
                       !.was_resolved = q \in DOMAIN active_alerts /\ active_alerts[q].resolved,
                       !.cond = st.cond, !.fired = st.fired, !.sent = st.sent,
                       !.severity = Severities(st.sent, core_queues, q)]
    /\ idx' = idx + 1
    /\ pc' = IF idx + 1 = Len(queue_data) THEN "write" ELSE "eval"
    /\ UNCHANGED <<now, queue_data, total_core, cfgVars, rl, cycles, reloads, items>>

\* the processing of the next item raises (a count or a threshold that is not a
\* number makes get_queue_status_icon raise TypeError): collect_metrics is left
\* and the handler of run logs the error
EvalQueueRaises ==
    /\ UNCHANGED extVars
    /\ pc = "eval"
    /\ idx < Len(queue_data)
    /\ pc' = "sleep"
    /\ ev' = [NoEvent EXCEPT !.op = "error", !.q = queue_data[idx + 1].name]
    /\ UNCHANGED <<now, queue_data, idx, total_backlog, core_healthy, total_core,
                   last_alert_time, active_alerts, cfgVars, rl, run, cycles, reloads, items>>

\* the webhook starts or stops accepting deliveries, between two cycles
DiscordChanges ==
    /\ pc = "fetch"
    /\ discord_ok' = ~discord_ok
    /\ UNCHANGED <<now, loopVars, last_alert_time, active_alerts, cfgVars, rl, ev, run,
                   cycles, reloads, items>>
    /\ UNCHANGED <<stepVars, shutVars, failed_keys, failed_recoveries, accepted, discVars,
                   writerVars>>

----------------------------------------------------------------------------
(* The snapshot writer (InfluxDBWriter): the category tag of a point        *)

\* the names used in the model that match one of core_patterns
\* (^gps_queue(?!_history).*, ^current_position_queue.*,
\* ^bus_tracking_queue.*, ^pis_queue.*)
MatchesCorePattern(name) == name \in {"gps_queue_1"}

\* InfluxDBWriter.categorize_by_pattern
CategorizeByPattern(name) == IF MatchesCorePattern(name) THEN "CORE" ELSE "SUPPORT"

\* the value get_category_from_config returns when it has none
NoCategory == "None"

\* InfluxDBWriter.get_category_from_config: the file is read from disk at
\* the time of the call; queues[queue_name].get('category', 'SUPPORT')
GetCategoryFromConfig(file, name) ==
    IF ~file.readable THEN NoCategory
    ELSE LET hits == {i \in 1..Len(QueuesConfig(file)) : QueuesConfig(file)[i].name = name}
         IN  IF hits = {} THEN NoCategory
             ELSE LET e == QueuesConfig(file)[CHOOSE i \in hits : TRUE]
                  IN  IF e.category = "" THEN "SUPPORT" ELSE e.category

\* InfluxDBWriter.get_queue_category: cache, then file, then pattern
GetQueueCategory(cache, file, name) ==
    IF name \in DOMAIN cache THEN cache[name]
    ELSE IF GetCategoryFromConfig(file, name) # NoCategory
         THEN GetCategoryFromConfig(file, name)
         ELSE CategorizeByPattern(name)

\* queue_categories after write_queue_metrics has tagged every item of the
\* snapshot: get_queue_category stores what it returns
CategoriesAfterWrite(cache, file, data) ==
    LET names == {data[i].name : i \in 1..Len(data)}
    IN  [q \in DOMAIN cache \cup names |-> GetQueueCategory(cache, file, q)]

\* variant: the exception of the writer is not caught in collect_metrics
WriteMetrics_Fatal ==
    /\ UNCHANGED <<stepVars, shutVars, faultVars, accepted, discVars, influx_writer,
                   config_file>>
    /\ pc = "write"
    /\ IF influx_writer
       THEN /\ queue_categories' =
                  CategoriesAfterWrite(queue_categories, config_file, queue_data)
            /\ \E ok \in BOOLEAN :
                  /\ pc' = IF ok THEN "system" ELSE "sleep"
                  /\ ev' = [NoEvent EXCEPT !.op = "write",
                               !.outcome = IF ok THEN "ok" ELSE "failed"]
       ELSE /\ queue_categories' = queue_categories
            /\ pc' = "system"
            /\ ev' = [NoEvent EXCEPT !.op = "write", !.outcome = "disabled"]
    /\ UNCHANGED <<now, queue_data, idx, total_backlog, core_healthy, total_core,
                   last_alert_time, active_alerts, cfgVars, rl, run, cycles, reloads, items>>

\* if self.influx_writer: self.influx_writer.write_queue_metrics(queue_data),
\* failure logged.  The points are tagged before the batch is written, so
\* the categories are cached whether or not the write succeeds.
WriteMetrics ==
    /\ UNCHANGED <<stepVars, shutVars, faultVars, accepted, discVars, influx_writer,
                   config_file>>
    /\ pc = "write"
    /\ pc' = "system"
    /\ IF influx_writer
       THEN /\ queue_categories' =
                  CategoriesAfterWrite(queue_categories, config_file, queue_data)
            /\ \E ok \in BOOLEAN :
                  ev' = [NoEvent EXCEPT !.op = "write",
                            !.outcome = IF ok THEN "ok" ELSE "failed"]
       ELSE /\ queue_categories' = queue_categories
            /\ ev' = [NoEvent EXCEPT !.op = "write", !.outcome = "disabled"]
    /\ UNCHANGED <<now, queue_data, idx, total_backlog, core_healthy, total_core,
                   last_alert_time, active_alerts, cfgVars, rl, run, cycles, reloads, items>>

SystemAlerts ==
    /\ UNCHANGED <<stepVars, shutVars, discord_ok, failed_recoveries, accepted, discVars,
                   writerVars>>
    /\ pc = "system"
    /\ LET st == CheckSystemAlerts(last_alert_time, active_alerts,
                                   total_backlog, core_healthy, total_core, now)
       IN  /\ last_alert_time' = st.lat
           /\ run' = RunAfter(SystemKeys, st, now)
           /\ failed_keys' = FailedAfter(st)
           /\ ev' = [NoEvent EXCEPT !.op = "system", !.cond = st.cond,
                                    !.outcome = DeliveryOutcome(st),
                                    !.fired = st.fired, !.sent = st.sent,
                                    !.severity = Severities(st.sent, core_queues, "")]
    /\ pc' = "sleep"
    /\ UNCHANGED <<now, queue_data, idx, total_backlog, core_healthy, total_core,
                   active_alerts, cfgVars, rl, cycles, reloads, items>>

\* the runs that this cycle did not continue are over
RunsOfCycle(t) == [k \in AllKeys |-> IF run[k].n > 0 /\ run[k].last = t THEN run[k] ELSE NoRun]

\* the cycle took `elapsed`; time.sleep(max(0, interval - elapsed)); next iteration
Sleep ==
    /\ UNCHANGED extVars
    /\ pc = "sleep"
    /\ cycles < MaxCycles
    /\ \E elapsed \in 0..(Interval + MaxOverrun) :
          /\ now' = now + (IF elapsed > Interval THEN elapsed ELSE Interval)
          /\ now' <= MaxTime
    /\ pc' = "fetch"
    /\ IdleLoop
    /\ cycles' = cycles + 1
    /\ run' = RunsOfCycle(now)
    /\ ev' = [NoEvent EXCEPT !.op = "sleep"]
    /\ UNCHANGED <<last_alert_time, active_alerts, cfgVars, rl, reloads, items>>

----------------------------------------------------------------------------
(* The configuration watcher: reload_configuration as one step, handled    *)
(* while the collection loop sleeps                                        *)

CategoryOf(cq, q) == IF q \in cq THEN "CORE" ELSE "SUPPORT"

\* the (added, removed, category changed) sets reload_configuration reports
ConfigChanges(old_targets, old_core, new_targets, new_core) ==
    [added   |-> new_targets \ old_targets,
     removed |-> old_targets \ new_targets,
     changed |-> {q \in old_targets \cap new_targets :
                     CategoryOf(old_core, q) # CategoryOf(new_core, q)}]

HasChanges(c) == c.added # {} \/ c.removed # {} \/ c.changed # {}

ReloadEvent(f, old_targets, old_core) ==
    IF ~ValidConfiguration(f)
    THEN [NoEvent EXCEPT !.op = "reload", !.outcome = "rejected"]
    ELSE [NoEvent EXCEPT !.op = "reload", !.outcome = "ok",
             !.sent = IF HasChanges(ConfigChanges(old_targets, old_core,
                                                  SeqToSet(ParseTargets(f)),
                                                  SeqToSet(ParseCore(f))))
                      THEN << "configuration_change" >> ELSE << >>]

\* load_configuration up to the point where it raises or returns
LoadConfiguration(f) ==
    /\ config' = f
    /\ target_queues' = ParseTargets(f)
    /\ core_queues' = ParseCore(f)
    /\ support_queues' = ParseSupport(f)
    /\ queue_thresholds' = ParseThresholds(f)

\* variant: the reload drops the records of the queues it removes
ReloadBody_Prunes ==
    /\ UNCHANGED <<stepVars, shutVars, faultVars, discVars, influx_writer, queue_categories>>
    /\ rl.pc = "idle"
    /\ reloads' = reloads + 1
    /\ \E f \in Files :
          /\ config_file' = f
          /\ IF ~f.readable
             THEN /\ UNCHANGED cfgVars
                  /\ accepted' = accepted
                  /\ ev' = [NoEvent EXCEPT !.op = "reload", !.outcome = "unreadable"]
             ELSE /\ LoadConfiguration(f)
                  /\ accepted' = IF ValidConfiguration(f) THEN f ELSE accepted
                  /\ ev' = ReloadEvent(f, SeqToSet(target_queues), SeqToSet(core_queues))
    /\ active_alerts' = [q \in DOMAIN active_alerts \cap SeqToSet(target_queues') |->
                            active_alerts[q]]
    /\ UNCHANGED <<now, loopVars, last_alert_time, rl, run, cycles, items>>

\* one call of reload_configuration by the watcher's thread
ReloadBody ==
    /\ UNCHANGED <<stepVars, shutVars, faultVars, discVars, influx_writer, queue_categories>>
    /\ rl.pc = "idle"
    /\ reloads' = reloads + 1
    /\ \E f \in Files :
          /\ config_file' = f
          /\ IF ~f.readable
             THEN /\ UNCHANGED cfgVars
                  /\ accepted' = accepted
                  /\ ev' = [NoEvent EXCEPT !.op = "reload", !.outcome = "unreadable"]
             ELSE /\ LoadConfiguration(f)
                  /\ accepted' = IF ValidConfiguration(f) THEN f ELSE accepted
                  /\ ev' = ReloadEvent(f, SeqToSet(target_queues), SeqToSet(core_queues))
    /\ UNCHANGED <<now, loopVars, last_alert_time, active_alerts, rl, run, cycles, items>>

ReloadCall == reloads < MaxReloads /\ ReloadBody

\* the call comes while the collection loop sleeps
ReloadConfiguration == pc = "sleep" /\ ReloadCall

\* one of a series of calls, each while the collection loop sleeps
ReloadInSequence == pc = "sleep" /\ reloads < MaxReloadSeq /\ ReloadBody

\* the call comes while check_queue_alerts is running
ReloadDuringEvaluation == sp.pc # "idle" /\ ReloadCall

----------------------------------------------------------------------------
(* reload_configuration statement by statement, as the watcher's thread    *)
(* runs it while the other activities go on                                *)

ReloadStep(next_pc) ==
    /\ rl' = [rl EXCEPT !.pc = next_pc]
    /\ ev' = [NoEvent EXCEPT !.op = "reload_step"]

\* old_core, old_support, old_targets = set(...)
ReloadBegin ==
    /\ UNCHANGED <<stepVars, shutVars, faultVars, accepted, discVars, influx_writer,
                   queue_categories>>
    /\ rl.pc = "idle"
    /\ reloads < MaxReloads
    /\ reloads' = reloads + 1
    /\ \E f \in Files :
          /\ config_file' = f
          /\ rl' = [pc |-> "load", f |-> f, i |-> 0,
                    old_targets |-> SeqToSet(target_queues),
                    old_core |-> SeqToSet(core_queues)]
    /\ ev' = [NoEvent EXCEPT !.op = "reload_step"]
    /\ UNCHANGED <<now, loopVars, last_alert_time, active_alerts, cfgVars, run, cycles, items>>

\* self.config = json.load(f), or json.load raises
ReloadLoadFile ==
    /\ UNCHANGED extVars
    /\ rl.pc = "load"
    /\ IF rl.f.readable
       THEN /\ config' = rl.f
            /\ ReloadStep("parse_targets")
       ELSE /\ config' = config
            /\ rl' = ReloadIdle
            /\ ev' = [NoEvent EXCEPT !.op = "reload", !.outcome = "unreadable"]
    /\ UNCHANGED <<now, loopVars, last_alert_time, active_alerts, target_queues,
                   core_queues, support_queues, queue_thresholds, run, cycles, reloads, items>>

\* self.target_queues = list(queues_config.keys())
ReloadParseTargets ==
    /\ UNCHANGED extVars
    /\ rl.pc = "parse_targets"
    /\ target_queues' = ParseTargets(rl.f)
    /\ ReloadStep("parse_core")
    /\ UNCHANGED <<now, loopVars, last_alert_time, active_alerts, config,
                   core_queues, support_queues, queue_thresholds, run, cycles, reloads, items>>

\* self.core_queues = []
ReloadParseCore ==
    /\ UNCHANGED extVars
    /\ rl.pc = "parse_core"
    /\ core_queues' = << >>
    /\ ReloadStep("parse_support")
    /\ UNCHANGED <<now, loopVars, last_alert_time, active_alerts, config,
                   target_queues, support_queues, queue_thresholds, run, cycles, reloads, items>>

\* self.support_queues = []
ReloadParseSupport ==
    /\ UNCHANGED extVars
    /\ rl.pc = "parse_support"
    /\ support_queues' = << >>
    /\ ReloadStep("parse_thresholds")
    /\ UNCHANGED <<now, loopVars, last_alert_time, active_alerts, config,
                   target_queues, core_queues, queue_thresholds, run, cycles, reloads, items>>

\* self.queue_thresholds = {}
ReloadParseThresholds ==
    /\ UNCHANGED extVars
    /\ rl.pc = "parse_thresholds"
    /\ queue_thresholds' = EmptyMap
    /\ ReloadStep(IF Len(QueuesConfig(rl.f)) = 0 THEN "validate" ELSE "category")
    /\ UNCHANGED <<now, loopVars, last_alert_time, active_alerts, config,
                   target_queues, core_queues, support_queues, run, cycles, reloads, items>>

\* self.core_queues.append(queue_name) / self.support_queues.append(queue_name)
ReloadAppendCategory ==
    /\ UNCHANGED extVars
    /\ rl.pc = "category"
    /\ LET e == QueuesConfig(rl.f)[rl.i + 1]
       IN  IF IsCoreEntry(e)
           THEN /\ core_queues' = Append(core_queues, e.name)
                /\ support_queues' = support_queues
           ELSE /\ support_queues' = Append(support_queues, e.name)
                /\ core_queues' = core_queues
    /\ ReloadStep("thresholds")
    /\ UNCHANGED <<now, loopVars, last_alert_time, active_alerts, config,
                   target_queues, queue_thresholds, run, cycles, reloads, items>>

\* self.queue_thresholds[queue_name] = queue_config.get('thresholds', {})
ReloadStoreThresholds ==
    /\ UNCHANGED extVars
    /\ rl.pc = "thresholds"
    /\ LET e == QueuesConfig(rl.f)[rl.i + 1]
       IN  queue_thresholds' =
              [q \in DOMAIN queue_thresholds \cup {e.name} |->
                  IF q = e.name THEN EntryThresholds(e) ELSE queue_thresholds[q]]
    /\ rl' = [rl EXCEPT !.i = @ + 1,
                        !.pc = IF rl.i + 1 = Len(QueuesConfig(rl.f))
                               THEN "validate" ELSE "category"]
    /\ ev' = [NoEvent EXCEPT !.op = "reload_step"]
    /\ UNCHANGED <<now, loopVars, last_alert_time, active_alerts, config,
                   target_queues, core_queues, support_queues, run, cycles, reloads, items>>

\* validate_configuration, then the comparison and the notification
ReloadFinish ==
    /\ UNCHANGED <<stepVars, shutVars, faultVars, discVars, writerVars>>
    /\ accepted' = IF ValidConfiguration(rl.f) THEN rl.f ELSE accepted
    /\ rl.pc = "validate"
    /\ ev' = ReloadEvent(rl.f, rl.old_targets, rl.old_core)
    /\ rl' = ReloadIdle
    /\ UNCHANGED <<now, loopVars, last_alert_time, active_alerts, cfgVars, run,
                   cycles, reloads, items>>

----------------------------------------------------------------------------
(* The health responder: GET /health                                       *)

HealthCheck ==
    /\ UNCHANGED extVars
    /\ ev' = [NoEvent EXCEPT !.op = "health",
                 !.total = Len(target_queues),
                 !.core = Len(core_queues),
                 !.support = Len(support_queues)]
    /\ UNCHANGED <<now, loopVars, last_alert_time, active_alerts, cfgVars, rl, run, cycles, reloads, items>>

\* the request comes while check_queue_alerts is running
HealthDuringEvaluation == sp.pc # "idle" /\ HealthCheck

----------------------------------------------------------------------------
(* check_queue_alerts statement by statement: the reads and the writes of   *)
(* last_alert_time are separate steps, so that the other activities can     *)
(* come in between; check_recovery and track_alert run under the tracker's  *)
(* lock and are one step each.                                              *)

\* no evaluation is in progress
StepIdle ==
    [pc |-> "idle", q |-> "", ready |-> 0, consumers |-> 0, qt |-> EmptyMap, blk |-> 0,
     had_record |-> FALSE, was_resolved |-> FALSE,
     cond |-> {}, fired |-> {}, sent |-> << >>]

\* the three blocks of check_queue_alerts, in order
BlockKey(b, q) ==
    IF b = 1 THEN BacklogKey(q) ELSE IF b = 2 THEN NoConsumersKey(q) ELSE StalledKey(q)

BlockType(b) ==
    IF b = 1 THEN "queue_backlog" ELSE IF b = 2 THEN "no_consumers" ELSE "stalled_queue"

\* the condition of a block, on the thresholds read at the top of the function
BlockHolds(b, l) ==
    IF b = 1 THEN HighBacklogCondition(l.qt, l.q, l.ready)
    ELSE IF b = 2 THEN NoConsumersCondition(l.qt, l.q, l.ready, l.consumers)
    ELSE StalledCondition(l.ready, l.consumers)

\* on to the next block, or to the end of the function
NextBlock(l) ==
    IF l.blk < 3 THEN [l EXCEPT !.pc = "test", !.blk = @ + 1] ELSE [l EXCEPT !.pc = "end"]

\* variant: the assignment is lost
StampAlert_Lost(lat, alert_key, t) == lat

\* self.last_alert_time[alert_key] = now
StampAlert(lat, alert_key, t) ==
    [k \in DOMAIN lat \cup {alert_key} |-> IF k = alert_key THEN t ELSE lat[k]]

\* what the statements of check_queue_alerts and of the tracker leave alone
StepRest ==
    /\ UNCHANGED <<now, pc, queue_data, idx, total_backlog, core_healthy, total_core,
                   cfgVars, rl, ev, run, cycles, reloads, items>>
    /\ UNCHANGED <<shutVars, faultVars, accepted, discVars, writerVars>>

StepFrame == StepRest /\ UNCHANGED lock

\* the thresholds and the category are read (lines 488-498)
StepBegin ==
    /\ pc = "eval"
    /\ idx < Len(queue_data)
    /\ sp.pc = "idle"
    /\ LET item == queue_data[idx + 1]
           q == item.name
       IN  sp' = [StepIdle EXCEPT
                    !.pc = "recovery", !.q = q, !.ready = item.ready,
                    !.consumers = item.consumers,
                    !.qt = [n \in {q} |->
                              [high_backlog |-> GetQueueThreshold(queue_thresholds, q,
                                                   "high_backlog", DefaultHighBacklog),
                               no_consumers_alert |-> ShouldAlertNoConsumers(queue_thresholds, q)]],
                    !.had_record = q \in DOMAIN active_alerts,
                    !.was_resolved = q \in DOMAIN active_alerts /\ active_alerts[q].resolved]
    /\ UNCHANGED <<last_alert_time, active_alerts, fired_at>>
    /\ StepFrame

\* self.recovery_tracker.check_recovery(queue_name, queue_data, self)
StepRecovery ==
    /\ sp.pc = "recovery"
    /\ active_alerts' = ActiveAfterRecovery(active_alerts, queue_thresholds,
                                           sp.q, sp.ready, sp.consumers)
    /\ sp' = [sp EXCEPT !.pc = "test", !.blk = 1,
                        !.sent = IF CheckRecovery(active_alerts, queue_thresholds,
                                                  sp.q, sp.ready, sp.consumers)
                                 THEN Append(@, "recovery") ELSE @]
    /\ UNCHANGED <<last_alert_time, fired_at>>
    /\ StepFrame

\* the condition of the block and the tests of should_send_alert (lines 452, 456)
StepTest ==
    /\ sp.pc = "test"
    /\ LET key == BlockKey(sp.blk, sp.q)
       IN  IF ~BlockHolds(sp.blk, sp)
           THEN sp' = NextBlock(sp)
           ELSE IF ShouldSendAlert(last_alert_time, key, now)
                THEN sp' = [sp EXCEPT !.pc = "stamp", !.cond = @ \cup {key}]
                ELSE sp' = NextBlock([sp EXCEPT !.cond = @ \cup {key}])
    /\ UNCHANGED <<last_alert_time, active_alerts, fired_at>>
    /\ StepFrame

\* the assignment of should_send_alert (lines 453, 457), which then returns True
StepStamp ==
    /\ sp.pc = "stamp"
    /\ last_alert_time' = StampAlert(last_alert_time, BlockKey(sp.blk, sp.q), now)
    /\ sp' = [sp EXCEPT !.pc = "send", !.fired = @ \cup {BlockKey(sp.blk, sp.q)}]
    /\ UNCHANGED <<active_alerts, fired_at>>
    /\ StepFrame

\* self.send_discord_alert(alert_data)
StepSend ==
    /\ sp.pc = "send"
    /\ sp' = [sp EXCEPT !.pc = "track", !.sent = SendDiscordAlert(@, BlockType(sp.blk))]
    /\ fired_at' = [k \in DOMAIN fired_at \cup {BlockKey(sp.blk, sp.q)} |->
                       IF k = BlockKey(sp.blk, sp.q) THEN now ELSE fired_at[k]]
    /\ UNCHANGED <<last_alert_time, active_alerts>>
    /\ StepFrame

\* self.recovery_tracker.track_alert(queue_name, alert_type)
StepTrack ==
    /\ sp.pc = "track"
    /\ active_alerts' = TrackAlert(active_alerts, sp.q, BlockType(sp.blk), now)
    /\ sp' = NextBlock(sp)
    /\ UNCHANGED <<last_alert_time, fired_at>>
    /\ StepFrame

\* check_queue_alerts returns; the loop of collect_metrics goes on
StepEnd ==
    /\ sp.pc = "end"
    /\ LET icon == GetQueueStatusIcon(queue_thresholds, sp.q, sp.ready, sp.consumers)
       IN  core_healthy' = core_healthy +
              (IF IsCoreQueue(core_queues, sp.q) /\ icon = "HEALTHY" THEN 1 ELSE 0)
    /\ total_backlog' = total_backlog + sp.ready
    /\ idx' = idx + 1
    /\ pc' = IF idx + 1 = Len(queue_data) THEN "write" ELSE "eval"
    /\ run' = RunAfter(QueueKeys(sp.q), sp, now)
    /\ ev' = [NoEvent EXCEPT
                !.op = "eval", !.q = sp.q, !.ready = sp.ready, !.consumers = sp.consumers,
                !.threshold = sp.qt[sp.q].high_backlog,
                !.had_record = sp.had_record, !.was_resolved = sp.was_resolved,
                !.cond = sp.cond, !.fired = sp.fired, !.sent = sp.sent,
                !.severity = Severities(sp.sent, core_queues, sp.q),
                !.outcome = DeliveryOutcome(sp)]
    /\ sp' = StepIdle
    /\ UNCHANGED <<now, queue_data, total_core, last_alert_time, active_alerts, fired_at,
                   lock, cfgVars, rl, cycles, reloads, items>>
    /\ UNCHANGED <<shutVars, faultVars, accepted, discVars, writerVars>>

----------------------------------------------------------------------------
(* The tracker's calls statement by statement: `with self.lock:` acquires   *)
(* the lock on entry and releases it on every way out of the block.         *)

\* the lock as the `with` block leaves it
Released == "free"

\* variant: the way out by an exception keeps the lock
RecoveryRaises_Leaks ==
    /\ sp.pc \in {"recovery_locked", "recovery_send"}
    /\ lock' = lock
    /\ sp' = StepIdle
    /\ pc' = "sleep"
    /\ ev' = [NoEvent EXCEPT !.op = "error", !.q = sp.q]
    /\ UNCHANGED <<now, queue_data, idx, total_backlog, core_healthy, total_core,
                   last_alert_time, active_alerts, fired_at, cfgVars, rl, run, cycles,
                   reloads, items>>
    /\ UNCHANGED <<shutVars, faultVars, accepted, discVars, writerVars>>

\* check_recovery enters `with self.lock:`; acquire() waits while the lock is held
RecoveryAcquire ==
    /\ sp.pc = "recovery"
    /\ lock = "free"
    /\ lock' = "main"
    /\ sp' = [sp EXCEPT !.pc = "recovery_locked"]
    /\ UNCHANGED <<last_alert_time, active_alerts, fired_at>>
    /\ StepRest

\* the tests of check_recovery: record present, not resolved, recovered on the
\* threshold read here (lines 65-81)
RecoveryTests ==
    /\ sp.pc = "recovery_locked"
    /\ sp' = [sp EXCEPT !.pc = IF CheckRecovery(active_alerts, queue_thresholds,
                                                 sp.q, sp.ready, sp.consumers)
                               THEN "recovery_send" ELSE "recovery_unlock"]
    /\ UNCHANGED <<last_alert_time, active_alerts, fired_at>>
    /\ StepFrame

\* monitor.send_recovery_alert(...), delivered or not
RecoverySend ==
    /\ sp.pc = "recovery_send"
    /\ sp' = [sp EXCEPT !.pc = "recovery_mark", !.sent = SendDiscordAlert(@, "recovery")]
    /\ UNCHANGED <<last_alert_time, active_alerts, fired_at>>
    /\ StepFrame

\* alert_info['resolved'] = True
RecoveryMark ==
    /\ sp.pc = "recovery_mark"
    /\ active_alerts' = [active_alerts EXCEPT ![sp.q].resolved = TRUE]
    /\ sp' = [sp EXCEPT !.pc = "recovery_unlock"]
    /\ UNCHANGED <<last_alert_time, fired_at>>
    /\ StepFrame

\* a statement inside the block raises: the `with` releases the lock, the
\* exception ends the cycle in run's handler
RecoveryRaises ==
    /\ sp.pc \in {"recovery_locked", "recovery_send"}
    /\ lock' = Released
    /\ sp' = StepIdle
    /\ pc' = "sleep"
    /\ ev' = [NoEvent EXCEPT !.op = "error", !.q = sp.q]
    /\ UNCHANGED <<now, queue_data, idx, total_backlog, core_healthy, total_core,
                   last_alert_time, active_alerts, fired_at, cfgVars, rl, run, cycles,
                   reloads, items>>
    /\ UNCHANGED <<shutVars, faultVars, accepted, discVars, writerVars>>

\* check_recovery returns: the `with` block is left
RecoveryRelease ==
    /\ sp.pc = "recovery_unlock"
    /\ lock' = Released
    /\ sp' = [sp EXCEPT !.pc = "test", !.blk = 1]
    /\ UNCHANGED <<last_alert_time, active_alerts, fired_at>>
    /\ StepRest

\* track_alert enters `with self.lock:`
TrackAcquire ==
    /\ sp.pc = "track"
    /\ lock = "free"
    /\ lock' = "main"
    /\ sp' = [sp EXCEPT !.pc = "track_locked"]
    /\ UNCHANGED <<last_alert_time, active_alerts, fired_at>>
    /\ StepRest

\* self.active_alerts[queue_name] = {...}
TrackStore ==
    /\ sp.pc = "track_locked"
    /\ active_alerts' = TrackAlert(active_alerts, sp.q, BlockType(sp.blk), now)
    /\ sp' = [sp EXCEPT !.pc = "track_unlock"]
    /\ UNCHANGED <<last_alert_time, fired_at>>
    /\ StepFrame

\* track_alert returns
TrackRelease ==
    /\ sp.pc = "track_unlock"
    /\ lock' = Released
    /\ sp' = NextBlock([sp EXCEPT !.pc = "track"])
    /\ UNCHANGED <<last_alert_time, active_alerts, fired_at>>
    /\ StepRest

\* the state after __init__; the history counts the loop's iterations from
\* `first` and the watcher's calls from `loaded`; `writer` tells whether
\* InfluxDBWriter() could be built (else influx_writer is None)
InitState(first, loaded, files, discovery, writer) ==
    /\ now = 0
    /\ pc = "fetch"
    /\ queue_data = << >>
    /\ idx = 0
    /\ total_backlog = 0
    /\ core_healthy = 0
    /\ total_core = 0
    /\ last_alert_time = EmptyMap
    /\ active_alerts = EmptyMap
    /\ \E f \in files :
          /\ config = f
          /\ target_queues = ParseTargets(f)
          /\ core_queues = ParseCore(f)
          /\ support_queues = ParseSupport(f)
          /\ queue_thresholds = ParseThresholds(f)
    /\ rl = ReloadIdle
    /\ ev = NoEvent
    /\ run = [k \in AllKeys |-> NoRun]
    /\ cycles = first
    /\ reloads = loaded
    /\ items = 0
    /\ sp = StepIdle
    /\ fired_at = EmptyMap
    /\ lock = "free"
    /\ shutdown_notification_sent = FALSE
    /\ frames = << >>
    /\ proc = "running"
    /\ shutdown_sent = 0
    /\ signals = 0
    /\ discord_ok = TRUE
    /\ failed_keys = {}
    /\ failed_recoveries = {}
    /\ accepted = config
    /\ config_file = config
    /\ influx_writer = writer
    /\ queue_categories = EmptyMap
    /\ discovered_queues = {}
    /\ queue_discovery_enabled = discovery

\* ... with the snapshot writer built
InitWith(first, loaded, files, discovery) ==
    InitState(first, loaded, files, discovery, TRUE)

\* the state after __init__ has loaded a valid file: queue_discovery_enabled is
\* False and nothing of the program sets it
InitAt(first, loaded) == InitWith(first, loaded, ValidFiles, FALSE)

\* the monitor from its start, InfluxDB not being available when it is built
Init == InitState(1, 0, ValidFiles, FALSE, FALSE)

Next ==
    \/ FetchFails
    \/ Fetch
    \/ EvalQueue
    \/ WriteMetrics
    \/ SystemAlerts
    \/ Sleep
    \/ ReloadConfiguration

Spec == Init /\ [][Next]_vars

\* the last two iterations of the loop with the snapshot writer built, a
\* reload falling between them
InitWriter == InitAt(MaxCycles - 1, 0)

SpecWriter == InitWriter /\ [][Next]_vars

\* one collection cycle while the watcher's thread reloads and /health is served
NextConc ==
    \/ FetchFails
    \/ Fetch
    \/ EvalQueue
    \/ WriteMetrics
    \/ SystemAlerts
    \/ ReloadBegin
    \/ ReloadLoadFile
    \/ ReloadParseTargets
    \/ ReloadParseCore
    \/ ReloadParseSupport
    \/ ReloadParseThresholds
    \/ ReloadAppendCategory
    \/ ReloadStoreThresholds
    \/ ReloadFinish
    \/ HealthCheck

SpecConc == Init /\ [][NextConc]_vars

\* the last two iterations of the loop and the last call of the watcher, the
\* evaluations taken statement by statement, with the reload and the /health
\* requests falling inside them
InitSteps == InitAt(MaxCycles - 1, MaxReloads - 1)

NextSteps ==
    \/ FetchFails
    \/ Fetch
    \/ StepBegin
    \/ StepRecovery
    \/ StepTest
    \/ StepStamp
    \/ StepSend
    \/ StepTrack
    \/ StepEnd
    \/ WriteMetrics
    \/ SystemAlerts
    \/ Sleep
    \/ ReloadDuringEvaluation
    \/ HealthDuringEvaluation

SpecSteps == InitSteps /\ [][NextSteps]_vars

\* the last two iterations, the tracker's calls taken statement by statement
\* with their lock; the webhook fails or works per cycle
MainThreadLock ==
    \/ FetchFails
    \/ Fetch
    \/ StepBegin
    \/ RecoveryAcquire
    \/ RecoveryTests
    \/ RecoverySend
    \/ RecoveryMark
    \/ RecoveryRaises
    \/ RecoveryRelease
    \/ StepTest
    \/ StepStamp
    \/ StepSend
    \/ TrackAcquire
    \/ TrackStore
    \/ TrackRelease
    \/ StepEnd
    \/ WriteMetrics
    \/ SystemAlerts
    \/ Sleep

NextLock ==
    \/ MainThreadLock
    \/ DiscordChanges

InitLock == InitAt(MaxCycles - 1, 0)

\* the main thread is scheduled as long as it has a statement to run
SpecLock == InitLock /\ [][NextLock]_vars /\ WF_vars(MainThreadLock)

\* a series of calls of the watcher while the management API cannot be reached
NextReload ==
    \/ FetchFails
    \/ Sleep
    \/ ReloadInSequence

SpecReload == Init /\ [][NextReload]_vars

\* the collection loop with failing deliveries and items whose processing raises
NextFail ==
    \/ FetchFails
    \/ Fetch
    \/ EvalQueue
    \/ EvalQueueRaises
    \/ WriteMetrics
    \/ SystemAlerts
    \/ Sleep
    \/ DiscordChanges

\* two iterations of the loop
InitFail == InitAt(MaxCycles - 1, 0)

SpecFail == InitFail /\ [][NextFail]_vars

\* three iterations of the loop: a firing, its resolution and what follows
InitRecoveryFail == InitAt(MaxCycles - 2, 0)

SpecRecoveryFail == InitRecoveryFail /\ [][NextFail]_vars

----------------------------------------------------------------------------
(* Shutdown: signal_handler, cleanup, send_shutdown_notification and the   *)
(* finally clause of run. Signal handlers run in the main thread, on top   *)
(* of whatever it was executing, a running handler included; `frames` is   *)
(* the stack of the calls of cleanup in progress, innermost last.          *)

\* the innermost call of cleanup
Top == frames[Len(frames)]

SetTop(p) == [frames EXCEPT ![Len(frames)].pc = p]

\* what the shutdown steps leave alone
ShutdownFrame ==
    UNCHANGED <<now, loopVars, trackerVars, cfgVars, rl, ev, run, cycles, reloads, items,
                stepVars, faultVars, accepted, discVars, writerVars>>

\* variant: the loop has a thread of its own and runs on beside the handlers
MainRunning_OwnThread == proc # "exited"

\* the main thread is in the loop of run, outside any handler
MainRunning == proc = "running" /\ frames = << >>

\* SIGINT or SIGTERM is delivered: signal_handler starts and calls cleanup
Signal ==
    /\ proc # "exited"
    /\ signals < MaxSignals
    /\ signals' = signals + 1
    /\ frames' = Append(frames, [kind |-> "handler", pc |-> "cleanup"])
    /\ UNCHANGED <<shutdown_notification_sent, proc, shutdown_sent>>
    /\ ShutdownFrame

\* cleanup stops the observer, the health server and the writer and comes to
\* its call of send_shutdown_notification
CleanupResources ==
    /\ frames # << >>
    /\ Top.pc = "cleanup"
    /\ frames' = SetTop("check")
    /\ UNCHANGED <<shutdown_notification_sent, proc, shutdown_sent, signals>>
    /\ ShutdownFrame

\* one of the stops raises: cleanup logs the error and returns
CleanupRaises ==
    /\ frames # << >>
    /\ Top.pc = "cleanup"
    /\ frames' = SetTop("done")
    /\ UNCHANGED <<shutdown_notification_sent, proc, shutdown_sent, signals>>
    /\ ShutdownFrame

\* if self.shutdown_notification_sent: return
ShutdownCheck ==
    /\ frames # << >>
    /\ Top.pc = "check"
    /\ frames' = SetTop(IF shutdown_notification_sent THEN "done" ELSE "set")
    /\ UNCHANGED <<shutdown_notification_sent, proc, shutdown_sent, signals>>
    /\ ShutdownFrame

\* self.shutdown_notification_sent = True
ShutdownSet ==
    /\ frames # << >>
    /\ Top.pc = "set"
    /\ shutdown_notification_sent' = TRUE
    /\ frames' = SetTop("send")
    /\ UNCHANGED <<proc, shutdown_sent, signals>>
    /\ ShutdownFrame

\* self.send_discord_alert(alert_data), then cleanup returns
ShutdownSend ==
    /\ frames # << >>
    /\ Top.pc = "send"
    /\ shutdown_sent' = shutdown_sent + 1
    /\ frames' = SetTop("done")
    /\ UNCHANGED <<shutdown_notification_sent, proc, signals>>
    /\ ShutdownFrame

\* variant: the handler returns to the code it interrupted
HandlerExit_Returns ==
    /\ frames # << >>
    /\ Top.kind = "handler"
    /\ Top.pc = "done"
    /\ frames' = SubSeq(frames, 1, Len(frames) - 1)
    /\ UNCHANGED <<shutdown_notification_sent, proc, shutdown_sent, signals>>
    /\ ShutdownFrame

\* sys.exit(0) at the end of signal_handler: SystemExit, which no handler on
\* the way catches, abandons every interrupted call; out of the loop of run it
\* reaches the finally clause, which calls cleanup; out of that call of
\* cleanup it ends the process
HandlerExit ==
    /\ frames # << >>
    /\ Top.kind = "handler"
    /\ Top.pc = "done"
    /\ IF proc = "running"
       THEN /\ proc' = "finally"
            /\ frames' = <<[kind |-> "finally", pc |-> "cleanup"]>>
       ELSE /\ proc' = "exited"
            /\ frames' = << >>
    /\ UNCHANGED <<shutdown_notification_sent, shutdown_sent, signals>>
    /\ ShutdownFrame

\* the cleanup of the finally clause returns and run is left
FinallyReturn ==
    /\ frames # << >>
    /\ Top.kind = "finally"
    /\ Top.pc = "done"
    /\ proc' = "exited"
    /\ frames' = << >>
    /\ UNCHANGED <<shutdown_notification_sent, shutdown_sent, signals>>
    /\ ShutdownFrame

\* the loop, while no handler runs, in the cycles that obtain no snapshot
LoopFetchFails == MainRunning /\ FetchFails

LoopSleep == MainRunning /\ Sleep

\* the collection loop under any number and timing of signals
NextShutdown ==
    \/ LoopFetchFails
    \/ LoopSleep
    \/ Signal
    \/ CleanupResources
    \/ CleanupRaises
    \/ ShutdownCheck
    \/ ShutdownSet
    \/ ShutdownSend
    \/ HandlerExit
    \/ FinallyReturn

SpecShutdown == Init /\ [][NextShutdown]_vars

\* the steps of a cycle with a snapshot, while no handler runs
LoopFetch == MainRunning /\ Fetch

LoopEvalQueue == MainRunning /\ EvalQueue

LoopWriteMetrics == MainRunning /\ WriteMetrics

LoopSystemAlerts == MainRunning /\ SystemAlerts

SignalInLoop == signals < MaxTickSignals /\ Signal

\* two iterations of the loop, with signals falling anywhere in them
NextStop ==
    \/ LoopFetchFails
    \/ LoopFetch
    \/ LoopEvalQueue
    \/ LoopWriteMetrics
    \/ LoopSystemAlerts
    \/ LoopSleep
    \/ SignalInLoop
    \/ CleanupResources
    \/ CleanupRaises
    \/ ShutdownCheck
    \/ ShutdownSet
    \/ ShutdownSend
    \/ HandlerExit
    \/ FinallyReturn

SpecStop == InitFail /\ [][NextStop]_vars

\* one cycle whose snapshot carries counts at and next to the thresholds
NextNear ==
    \/ FetchNearThresholds
    \/ EvalQueue
    \/ WriteMetrics
    \/ SystemAlerts

InitNear == InitAt(MaxCycles, 0)

SpecNear == InitNear /\ [][NextNear]_vars

----------------------------------------------------------------------------
(* Queue discovery: get_queue_details with discover_and_monitor_queues,    *)
(* get_matching_server_queues, register_new_queues                         *)

\* names the server may hold, in the order of its answer: q1 matches no
\* pattern; the others are examples for the patterns below
ServerNames == <<"q1", "gps_queue_1", "gps_queue_history", "orders">>

\* the names that match one of the patterns of
\* get_matching_server_queues (^gps_queue.*, ^.*_position_queue$,
\* ^bus_tracking.*, ^pis_queue.*)
MatchesDiscoveryPattern(name) == name \in {"gps_queue_1", "gps_queue_history"}

\* gps_queue_1 is configured as SUPPORT, q1 as CORE
FileGps == [readable |-> TRUE, section |-> TRUE,
            queues |-> << Entry("gps_queue_1", "SUPPORT", TRUE, Thr(100, TRUE)),
                          Entry("q1", "CORE", TRUE, Thr(100, TRUE)) >>]

CategorizeQueueByPattern(name) == IF MatchesCorePattern(name) THEN "CORE" ELSE "SUPPORT"

\* config_queues.union(pattern_matches)
GetMatchingServerQueues(all_queues, tq) ==
    SeqToSet(tq) \cup {q \in all_queues : MatchesDiscoveryPattern(q)}

\* the body of the for loop of register_new_queues; c holds the four fields
RegisterOne(c, q) ==
    LET category == CategorizeQueueByPattern(q)
    IN  [tq |-> IF q \in SeqToSet(c.tq) THEN c.tq ELSE Append(c.tq, q),
         cq |-> IF category = "CORE" THEN Append(c.cq, q) ELSE c.cq,
         sq |-> IF category = "CORE" THEN c.sq ELSE Append(c.sq, q),
         qt |-> [k \in DOMAIN c.qt \cup {q} |->
                   IF k = q
                   THEN [high_backlog |-> 1000, critical_lag_seconds |-> 60,
                         no_consumers_alert |-> category = "CORE"]
                   ELSE c.qt[k]]]

\* register_new_queues, the new names taken in the order ord
RECURSIVE RegisterNewQueues(_, _)
RegisterNewQueues(c, ord) ==
    IF ord = << >> THEN c ELSE RegisterNewQueues(RegisterOne(c, Head(ord)), Tail(ord))

\* the orders in which a for loop may run through a set
Orders(S) ==
    {ord \in [1..Cardinality(S) -> S] : \A i, j \in 1..Cardinality(S) : ord[i] = ord[j] => i = j}

\* variant: every item of the answer is kept
FilterMonitored_All(current, data) ==
    LET names == SelectSeq(ServerNames, LAMBDA q : q \in DOMAIN data)
    IN  [i \in 1..Len(names) |->
            [name |-> names[i], ready |-> data[names[i]][1], consumers |-> data[names[i]][2]]]

\* the items of the answer whose name is in current_queues, in the server's order
FilterMonitored(current, data) ==
    LET names == SelectSeq(ServerNames, LAMBDA q : q \in current \cap DOMAIN data)
    IN  [i \in 1..Len(names) |->
            [name |-> names[i], ready |-> data[names[i]][1], consumers |-> data[names[i]][2]]]

\* collect_metrics up to its for loop, given what get_queue_details returned
StartCycle(server, monitored, notified) ==
    /\ items + Len(monitored) <= MaxItems
    /\ items' = items + Len(monitored)
    /\ IF monitored = << >>
       THEN /\ pc' = "sleep"
            /\ IdleLoop
            /\ ev' = [NoEvent EXCEPT !.op = "fetch", !.outcome = "empty",
                                     !.sent = notified, !.server = server]
       ELSE /\ pc' = "eval"
            /\ queue_data' = monitored
            /\ idx' = 0
            /\ total_backlog' = 0
            /\ core_healthy' = 0
            /\ total_core' = Len(core_queues')
            /\ ev' = [NoEvent EXCEPT !.op = "fetch", !.outcome = "ok",
                                     !.sent = notified, !.server = server]

\* get_queue_details with the server holding the names `server`:
\* discover_and_monitor_queues gives the names to keep, registering the new
\* ones when discovery is enabled
FetchServer ==
    /\ pc = "fetch"
    /\ \E server \in SUBSET SeqToSet(ServerNames) :
       \E data \in [server -> ReadyVals \X ConsumerVals] :
          IF ~queue_discovery_enabled
          THEN /\ UNCHANGED <<cfgVars, discovered_queues>>
               /\ StartCycle(server, FilterMonitored(SeqToSet(target_queues), data), << >>)
          ELSE LET server_queues == GetMatchingServerQueues(server, target_queues)
                   new_queues == server_queues \ discovered_queues
               IN  \E ord \in Orders(new_queues) :
                      LET c == RegisterNewQueues([tq |-> target_queues, cq |-> core_queues,
                                                  sq |-> support_queues,
                                                  qt |-> queue_thresholds], ord)
                      IN  /\ target_queues' = c.tq
                          /\ core_queues' = c.cq
                          /\ support_queues' = c.sq
                          /\ queue_thresholds' = c.qt
                          /\ discovered_queues' = server_queues
                          /\ UNCHANGED config
                          /\ StartCycle(server, FilterMonitored(server_queues, data),
                                        IF new_queues = {} THEN << >>
                                        ELSE <<"queue_discovery">>)
    /\ UNCHANGED <<now, last_alert_time, active_alerts, rl, run, cycles, reloads>>
    /\ UNCHANGED <<stepVars, shutVars, faultVars, accepted, queue_discovery_enabled, writerVars>>

\* the loop and the watcher, with the server holding any names
NextServer ==
    \/ FetchFails
    \/ FetchServer
    \/ EvalQueue
    \/ WriteMetrics
    \/ SystemAlerts
    \/ Sleep
    \/ ReloadConfiguration

\* the loop with the server holding any names
NextDiscovery ==
    \/ FetchFails
    \/ FetchServer
    \/ EvalQueue
    \/ WriteMetrics
    \/ SystemAlerts
    \/ Sleep

\* two iterations of the program as it is: discovery is off
InitServer == InitWith(MaxCycles - 1, 0, ValidFiles \cup {FileGps}, FALSE)

SpecServer == InitServer /\ [][NextServer]_vars

\* two iterations with queue_discovery_enabled set
InitDiscovery == InitWith(MaxCycles - 1, 0, {FileGps}, TRUE)

SpecDiscovery == InitDiscovery /\ [][NextDiscovery]_vars

----------------------------------------------------------------------------
(* Helpers of the properties                                               *)

\* the step is one evaluation: of a queue item, or of the system-wide conditions
QueueEvaluationStep == pc = "eval" /\ idx' = idx + 1
SystemEvaluationStep == pc = "system" /\ pc' = "sleep"
EvaluationStep == QueueEvaluationStep \/ SystemEvaluationStep

Count(seq, x) == Cardinality({i \in 1..Len(seq) : seq[i] = x})

CeilDiv(a, b) == (a + b - 1) \div b

\* the key had fired before and its last firing is less than / at least d ago
SentWithin(k, d) == k \in DOMAIN last_alert_time /\ now - last_alert_time[k] < d
SentAtLeast(k, d) == k \in DOMAIN last_alert_time /\ now - last_alert_time[k] >= d

\* the key's last-sent time is the same before and after the step
LastSentUnchanged(k) ==
    /\ k \in DOMAIN last_alert_time <=> k \in DOMAIN last_alert_time'
    /\ k \in DOMAIN last_alert_time => last_alert_time'[k] = last_alert_time[k]

----------------------------------------------------------------------------
(* C1: once a firing notification for a key was sent at time t, an          *)
(* evaluation of that key at a time less than the cooldown after t sends   *)
(* no firing notification and leaves the key's last-sent time unchanged;   *)
(* a key that fires gets the time of the firing as its last-sent time.     *)
C1_CooldownSuppresses ==
    [][EvaluationStep =>
         \A k \in ev'.cond :
            /\ SentWithin(k, Cooldown) => (k \notin ev'.fired /\ LastSentUnchanged(k))
            /\ k \in ev'.fired =>
                  (k \in DOMAIN last_alert_time' /\ last_alert_time'[k] = now)]_vars

\* a later cycle finds the condition of a key true inside its cooldown window
C1_Witness ==
    \E k \in ev.cond \ ev.fired :
        /\ k \in DOMAIN last_alert_time
        /\ last_alert_time[k] < now
        /\ now - last_alert_time[k] < Cooldown

(* C2, as stated: over a run of N regular cycles (spaced Interval apart,   *)
(* the key's condition true in each, the first one firing) the key fires   *)
(* exactly ceil(N * Interval / Cooldown) times.                            *)
C2_Original ==
    \A k \in AllKeys :
        run[k].n >= 1 => run[k].sent = CeilDiv(run[k].n * Interval, Cooldown)

(* C2, amended: over such a run the key fires exactly                      *)
(* ceil(N / (floor(Cooldown / Interval) + 1)) times, which is at most      *)
(* ceil(N * Interval / Cooldown).                                          *)
C2_RunCount ==
    Interval < Cooldown =>
        \A k \in AllKeys :
            run[k].n >= 1 =>
                /\ run[k].sent = CeilDiv(run[k].n, (Cooldown \div Interval) + 1)
                /\ run[k].sent <= CeilDiv(run[k].n * Interval, Cooldown)

\* a run long enough to hold a second firing
C2_Witness == \E k \in AllKeys : run[k].n >= 2 /\ run[k].sent = 2

(* C3, as stated: an evaluation that finds a key's condition true when the *)
(* time since its last firing is not less than the cooldown (equal         *)
(* included) sends a firing notification and sets last_sent_at to now.     *)
C3_Original ==
    [][EvaluationStep =>
         \A k \in ev'.cond :
            SentAtLeast(k, Cooldown) =>
               (k \in ev'.fired /\ last_alert_time'[k] = now)]_vars

(* C4, as stated: when the record of the evaluated queue is resolved and   *)
(* the condition of one of its keys is true, a firing notification is sent *)
(* for the key and the record becomes unresolved with timestamp now.       *)
C4_Original ==
    (ev.op = "eval" /\ ev.was_resolved) =>
        \A k \in ev.cond :
            /\ k \in ev.fired
            /\ ~active_alerts[ev.q].resolved
            /\ active_alerts[ev.q].timestamp = now

(* C5: no double resolution. An evaluation of a queue sends at most one   *)
(* resolution; it sends one, and marks the record resolved, when the       *)
(* record is unresolved and the recovery predicate is true; it sends none  *)
(* while the record is resolved; and a resolved record becomes unresolved  *)
(* only by an evaluation of its queue that records a new firing.           *)
C5_NoDoubleResolution ==
    [][/\ QueueEvaluationStep =>
            LET q == ev'.q
                n == Count(ev'.sent, "recovery")
                unresolved == q \in DOMAIN active_alerts /\ ~active_alerts[q].resolved
                resolved == q \in DOMAIN active_alerts /\ active_alerts[q].resolved
            IN  /\ n <= 1
                /\ (unresolved /\ IsRecovered(ev'.ready, ev'.consumers, ev'.threshold))
                      => (n = 1 /\ active_alerts'[q].resolved)
                /\ n = 1 => (unresolved /\ active_alerts'[q].resolved)
                /\ resolved => n = 0
       /\ \A q \in DOMAIN active_alerts :
             (active_alerts[q].resolved /\ ~active_alerts'[q].resolved)
                => (QueueEvaluationStep /\ ev'.q = q /\ ev'.fired # {})]_vars

\* a later cycle finds the recovery predicate still true on a resolved record
C5_Witness ==
    /\ ev.op = "eval"
    /\ ev.was_resolved
    /\ IsRecovered(ev.ready, ev.consumers, ev.threshold)
    /\ active_alerts[ev.q].timestamp < now
    /\ ev.sent = << >>

\* the high_backlog threshold check_recovery reads: the configured one or 1000
C6_Threshold(q) ==
    IF q \in DOMAIN queue_thresholds /\ "high_backlog" \in DOMAIN queue_thresholds[q]
    THEN queue_thresholds[q]["high_backlog"]
    ELSE 1000

(* C6: the recovery check of an evaluation sends the resolution and marks  *)
(* the record resolved if and only if the queue has an unresolved record   *)
(* and 10 * ready < 3 * threshold, consumers > 0 and ready < 50, with the  *)
(* queue's high_backlog threshold or 1000; otherwise it sends none, and a  *)
(* record changes only when a firing is recorded.                          *)
C6_RecoveryIff ==
    [][QueueEvaluationStep =>
         LET q == ev'.q
             sends == Count(ev'.sent, "recovery") > 0
             predicate == /\ 10 * ev'.ready < 3 * C6_Threshold(q)
                          /\ ev'.consumers > 0
                          /\ ev'.ready < 50
         IN  /\ sends <=> (/\ q \in DOMAIN active_alerts
                           /\ ~active_alerts[q].resolved
                           /\ predicate)
             /\ sends => active_alerts' = [active_alerts EXCEPT ![q].resolved = TRUE]
             /\ (~sends /\ ev'.fired = {}) => active_alerts' = active_alerts
             /\ \A p \in DOMAIN active_alerts \ {q} : active_alerts'[p] = active_alerts[p]]_vars

\* a resolution sent for a snapshot that still holds messages
C6_Witness ==
    /\ ev.op = "eval"
    /\ ev.sent = <<"recovery">>
    /\ ev.ready > 0
    /\ active_alerts[ev.q].resolved

FiringTypes == {"queue_backlog", "no_consumers", "stalled_queue"}

\* threshold values the snapshot of an evaluation is compared with
C7_Thresholds == {-1000, -1, 0, 1, 100, 134, 1000, 50000}

(* C7: one evaluation of a queue never sends both a resolution and a       *)
(* firing notification, the resolution (if any) is the first notification  *)
(* of the evaluation, and the snapshot of no evaluation satisfies the      *)
(* recovery predicate together with a firing condition, whatever the       *)
(* threshold.                                                              *)
C7_NoResolutionWithFiring ==
    /\ ev.op = "eval" =>
          /\ ~(Count(ev.sent, "recovery") > 0 /\ ev.fired # {})
          /\ \A i \in 1..Len(ev.sent) : ev.sent[i] = "recovery" => i = 1
          /\ \A i \in 1..Len(ev.sent) : ev.sent[i] \in FiringTypes \cup {"recovery"}
    /\ ev.op = "eval" =>
          \A thr \in C7_Thresholds :
             IsRecovered(ev.ready, ev.consumers, thr) =>
                /\ ~(ev.ready > thr)
                /\ ~(ev.consumers = 0 /\ ev.ready > 0)
                /\ ~StalledCondition(ev.ready, ev.consumers)

\* an evaluation of a queue with an unresolved record that fired
C7_Witness ==
    /\ ev.op = "eval"
    /\ ev.had_record
    /\ ~ev.was_resolved
    /\ ev.fired # {}
    /\ Count(ev.sent, "recovery") = 0

(* C8: the cooldown is per key. An evaluation changes the last-sent time   *)
(* of no key other than the keys of the evaluated queue (or the system     *)
(* keys) whose condition it found true, and whether such a key fires       *)
(* depends on its own last-sent time only.                                 *)
C8_PerKeyCooldown ==
    [][EvaluationStep =>
         /\ \A k \in (AllKeys \cup DOMAIN last_alert_time \cup DOMAIN last_alert_time')
                        \ ev'.cond : LastSentUnchanged(k)
         /\ \A k \in ev'.cond : k[2] = ev'.q
         /\ \A k \in ev'.cond :
               k \in ev'.fired <=>
                  (k \notin DOMAIN last_alert_time \/ now - last_alert_time[k] > Cooldown)
         /\ \A k \in ev'.cond \ ev'.fired : LastSentUnchanged(k)]_vars

\* one evaluation fires one key and suppresses another
C8_Witness ==
    /\ ev.op = "eval"
    /\ \E k1 \in ev.fired, k2 \in ev.cond \ ev.fired :
          last_alert_time[k1] = now /\ last_alert_time[k2] < now

(* C9, as stated: a reload whose file fails validation leaves config,      *)
(* target_queues, core_queues, support_queues and queue_thresholds as they *)
(* were before the reload.                                                 *)
C9_Original ==
    [][(ev'.op = "reload" /\ ev'.outcome = "rejected") => UNCHANGED cfgVars]_vars

\* the five fields are the result of loading one file completely
CompleteConfiguration(f) ==
    /\ config = f
    /\ target_queues = ParseTargets(f)
    /\ core_queues = ParseCore(f)
    /\ support_queues = ParseSupport(f)
    /\ queue_thresholds = ParseThresholds(f)

(* C10, as stated: at every moment the fields a reader sees are a complete *)
(* configuration, and the counts of a health response are the counts of    *)
(* one complete configuration.                                             *)
C10_Original ==
    /\ \E f \in Files : CompleteConfiguration(f)
    /\ ev.op = "health" =>
          \E f \in Files :
             /\ ev.total = Len(ParseTargets(f))
             /\ ev.core = Len(ParseCore(f))
             /\ ev.support = Len(ParseSupport(f))

\* the key of the block the stepwise evaluation is at
C11_Key == BlockKey(sp.blk, sp.q)

(* C11: the cooldown's check-then-update and the tracker's records are     *)
(* touched by the collection loop alone. A step of the watcher or of the   *)
(* health responder, wherever it falls in an evaluation, changes neither   *)
(* last_alert_time nor active_alerts; the decision read by                 *)
(* should_send_alert still holds when its assignment is made; and a firing *)
(* notification for a key is never sent less than the cooldown after the   *)
(* previous one for that key.                                              *)
C11_TrackerAtomic ==
    [][/\ UNCHANGED <<sp, loopVars>> => UNCHANGED trackerVars
       /\ (sp.pc = "stamp" /\ sp'.pc = "send") =>
             /\ ShouldSendAlert(last_alert_time, C11_Key, now)
             /\ C11_Key \in DOMAIN last_alert_time'
             /\ last_alert_time'[C11_Key] = now
       /\ (sp.pc = "send" /\ sp'.pc = "track") =>
             (C11_Key \notin DOMAIN fired_at \/ now - fired_at[C11_Key] >= Cooldown)]_vars

\* the watcher has reloaded the configuration inside an evaluation that is
\* between the test and the assignment of should_send_alert
C11_Witness ==
    /\ sp.pc = "stamp"
    /\ ev.op = "reload"
    /\ sp.qt[sp.q].high_backlog #
          GetQueueThreshold(queue_thresholds, sp.q, "high_backlog", DefaultHighBacklog)

\* the step is a call of reload_configuration that opened and parsed a file
C12_LoadStep == reloads' = reloads + 1 /\ ev'.op = "reload" /\ ev'.outcome # "unreadable"

(* C12: reload idempotence. A reload of the file that was loaded last       *)
(* finds no added, removed or re-categorized queue, sends no               *)
(* configuration_change alert and leaves target_queues, core_queues,       *)
(* support_queues and queue_thresholds as they were.                       *)
C12_ReloadIdempotent ==
    [][(C12_LoadStep /\ config' = config) =>
          /\ ev'.sent = << >>
          /\ ~HasChanges(ConfigChanges(SeqToSet(target_queues), SeqToSet(core_queues),
                                       SeqToSet(target_queues'), SeqToSet(core_queues')))
          /\ UNCHANGED <<target_queues, core_queues, support_queues, queue_thresholds>>]_vars

\* a file loaded by a reload has been reloaded, accepted, and nothing was sent
C12_Witness ==
    /\ reloads = 2
    /\ ev.op = "reload"
    /\ ev.outcome = "ok"
    /\ ev.sent = << >>
    /\ accepted = config

\* the files differ in their queue names or in the category of a common name
C13_Differ(g, f) ==
    \/ SeqToSet(ParseTargets(g)) # SeqToSet(ParseTargets(f))
    \/ \E q \in SeqToSet(ParseTargets(g)) :
          (q \in SeqToSet(ParseCore(g))) # (q \in SeqToSet(ParseCore(f)))

(* C13, as stated: a successful reload of a file that differs from the     *)
(* configuration accepted before it, in the queue names or in the category *)
(* of a common name, sends exactly one configuration_change alert,         *)
(* whatever the time since the previous one.                               *)
C13_Original ==
    [][(C12_LoadStep /\ ev'.outcome = "ok" /\ C13_Differ(accepted, config')) =>
          Count(ev'.sent, "configuration_change") = 1]_vars

(* C14, as stated: per-queue isolation. When the processing of a queue    *)
(* that is not the last of the snapshot raises, the cycle goes on to       *)
(* evaluate the queues after it.                                           *)
C14_Original ==
    [][(pc = "eval" /\ ev'.op = "error" /\ idx + 1 < Len(queue_data)) =>
          (pc' = "eval" /\ idx' = idx + 1)]_vars

(* C15: a failed fetch makes the cycle a no-op and never ends the loop.    *)
(* The step on which the fetch fails sends nothing, leaves last_alert_time *)
(* and active_alerts unchanged and takes the loop straight to its sleep,   *)
(* so that nothing is evaluated or handed to the writer in that cycle;     *)
(* and the loop leaves its sleep only by starting the next cycle.          *)
C15_FetchFailureNoOp ==
    [][/\ (ev'.op = "fetch" /\ ev'.outcome = "failed") =>
             /\ pc = "fetch"
             /\ pc' = "sleep"
             /\ ev'.sent = << >>
             /\ UNCHANGED <<trackerVars, cfgVars>>
       /\ (pc = "sleep" /\ pc' # "sleep") =>
             /\ pc' = "fetch"
             /\ cycles' = cycles + 1
             /\ now' >= now + Interval]_vars

\* the fetch of the last cycle has failed and no cycle before it obtained a
\* snapshot either
C15_Witness ==
    /\ cycles = MaxCycles
    /\ items = 0
    /\ pc = "sleep"
    /\ ev.op = "fetch"
    /\ ev.outcome = "failed"

(* C16, as stated: a failed delivery does not count as a sent             *)
(* notification. In an evaluation in which the condition of a key holds    *)
(* and the last firing notification for that key was not delivered, the    *)
(* firing notification is attempted again, whatever the time since.        *)
C16_Original ==
    [][EvaluationStep => \A k \in ev'.cond \cap failed_keys : k \in ev'.fired]_vars

\* the types of the firing notifications check_system_alerts sends
SystemFiringTypes == {"system_backlog", "system_failure"}

(* C17: a failed delivery is not fatal and is not retried in its cycle.    *)
(* In an evaluation made while the webhook refuses deliveries,             *)
(* send_discord_alert returns false, every key that fires gets exactly one *)
(* delivery attempt, and the cycle goes on: to the next queue, or to the   *)
(* writer and the system-wide checks after the last queue, and from the    *)
(* system-wide checks to the sleep that precedes the next cycle.           *)
C17_DeliveryFailureContained ==
    [][(EvaluationStep /\ ~discord_ok) =>
          /\ ev'.sent # << >> => ev'.outcome = "undelivered"
          /\ \A ty \in FiringTypes \cup SystemFiringTypes : Count(ev'.sent, ty) <= 1
          /\ Cardinality({i \in 1..Len(ev'.sent) : ev'.sent[i] # "recovery"}) =
                Cardinality(ev'.fired)
          /\ pc = "eval" =>
                pc' = IF idx' < Len(queue_data) THEN "eval" ELSE "write"
          /\ pc = "system" => pc' = "sleep"]_vars

\* a firing notification of a queue was not delivered and the cycle is at the
\* next queue of the snapshot
C17_Witness ==
    /\ ~discord_ok
    /\ ev.op = "eval"
    /\ ev.outcome = "undelivered"
    /\ ev.fired # {}
    /\ pc = "eval"
    /\ idx < Len(queue_data)

(* C18, as stated: in a cycle that fetched a non-empty snapshot the batch  *)
(* is handed to the writer exactly once, whatever became of the alert      *)
(* evaluation. The writer is called only after the last queue and only     *)
(* once, and such a cycle reaches its end only through the call of the     *)
(* writer and the system-wide checks that follow it.                       *)
C18_Original ==
    [][/\ ev'.op = "write" =>
             (pc = "write" /\ idx = Len(queue_data) /\ pc' = "system")
       /\ (pc \in {"eval", "write", "system"} /\ pc' = "sleep") =>
             (pc = "system" /\ ev.op = "write")]_vars

(* C19: a failure of the writer neither blocks alerting nor ends the loop. *)
(* When write_queue_metrics raises, every queue of the snapshot has        *)
(* already been evaluated, last_alert_time and active_alerts are as the    *)
(* evaluations left them, the next step of the loop is the evaluation of   *)
(* the system-wide conditions on the totals of this cycle, and after it    *)
(* the loop sleeps.                                                        *)
C19_WriterFailureContained ==
    [][/\ (ev'.op = "write" /\ ev'.outcome = "failed") =>
             /\ pc = "write"
             /\ idx = Len(queue_data)
             /\ pc' = "system"
             /\ UNCHANGED <<trackerVars, total_backlog, core_healthy, total_core>>
       /\ (ev.op = "write" /\ ev.outcome = "failed" /\ pc' # pc) =>
             /\ SystemEvaluationStep
             /\ ev'.op = "system"
             /\ ev'.cond = {k \in SystemKeys :
                               \/ k = SystemBacklogKey /\ SystemBacklogCondition(total_backlog)
                               \/ k = SystemFailureKey /\
                                     SystemFailureCondition(core_healthy, total_core)}]_vars

\* the writer has failed in a cycle whose total backlog is over the system
\* threshold, and the system-wide checks are next
C19_Witness ==
    /\ pc = "system"
    /\ ev.op = "write"
    /\ ev.outcome = "failed"
    /\ SystemBacklogCondition(total_backlog)

(* C20: at most one shutdown notification in the life of the process,     *)
(* whatever the number of signals and wherever they fall: in the loop, in  *)
(* a running call of cleanup, or in the cleanup of the finally clause.     *)
C20_OneShutdownNotification == shutdown_sent <= 1

\* a signal arrived in a call of send_shutdown_notification that had read the
\* flag and not yet set it, and the handler of that signal has sent the
\* notification
C20_Witness ==
    /\ shutdown_sent = 1
    /\ Len(frames) >= 2
    /\ frames[1].pc = "set"
    /\ Top.pc = "done"

\* the step sends the shutdown notification
ShutdownNotificationStep == shutdown_sent' = shutdown_sent + 1

\* the step is the part of cleanup that stops the observer and the health server
ReleaseStep ==
    /\ frames # << >>
    /\ Top.pc = "cleanup"
    /\ Len(frames') = Len(frames)
    /\ frames'[Len(frames)].pc = "check"

(* C21, as stated: shutdown drains the work in flight. The watcher and the *)
(* health responder are released, and the shutdown notification is sent,   *)
(* only when no cycle is under way: every queue of the snapshot has been   *)
(* evaluated and the batch has been handed to the writer.                  *)
C21_Original ==
    [][(ShutdownNotificationStep \/ ReleaseStep) => pc \in {"fetch", "sleep"}]_vars

(* C22: no cycle starts once stopping has begun, and cycles never         *)
(* overlap. From the delivery of the first signal on, the loop takes no    *)
(* step: no fetch, no evaluation, no write, no notification of the loop,   *)
(* and last_alert_time and active_alerts stay as they are. A cycle starts  *)
(* only from the sleep that ended the cycle before it, not less than the   *)
(* interval after that cycle started.                                      *)
C22_NoTickAfterStop ==
    [][/\ (signals > 0 \/ proc # "running") =>
             UNCHANGED <<now, loopVars, trackerVars, ev, cycles, items>>
       /\ (pc # "fetch" /\ pc' = "fetch") =>
             /\ pc = "sleep"
             /\ cycles' = cycles + 1
             /\ now' >= now + Interval]_vars

\* the process has ended after a signal that fell in a cycle with queues left to
\* evaluate, with one shutdown notification sent and a further cycle to come
C22_Witness ==
    /\ proc = "exited"
    /\ shutdown_sent = 1
    /\ pc = "eval"
    /\ idx < Len(queue_data)
    /\ cycles < MaxCycles

(* C23: the high_backlog condition and its severity. In the evaluation of *)
(* a queue the backlog condition holds exactly when messages_ready is      *)
(* greater than the queue's high_backlog threshold, a count equal to the   *)
(* threshold excluded, and a queue_backlog alert carries severity critical *)
(* for a CORE queue and warning for any other.                             *)
C23_HighBacklog ==
    [][QueueEvaluationStep =>
          /\ (BacklogKey(ev'.q) \in ev'.cond) <=> (ev'.ready > ev'.threshold)
          /\ ev'.ready = ev'.threshold => "queue_backlog" \notin SeqToSet(ev'.sent)
          /\ \A i \in 1..Len(ev'.sent) :
                ev'.sent[i] = "queue_backlog" =>
                   ev'.severity[i] = IF ev'.q \in SeqToSet(core_queues)
                                     THEN "critical" ELSE "warning"]_vars

\* one evaluation of a SUPPORT queue has sent a queue_backlog alert of severity
\* warning and a no_consumers alert
C23_Witness ==
    /\ ev.op = "eval"
    /\ ev.q \notin SeqToSet(core_queues)
    /\ ev.ready = ev.threshold + 1
    /\ ev.sent = <<"queue_backlog", "no_consumers">>
    /\ ev.severity = <<"warning", "critical">>

(* C24: no_consumers and stalled_queue exclude each other. In the          *)
(* evaluation of a queue the no_consumers condition holds exactly when the *)
(* queue's no_consumers_alert is set, consumers is 0 and messages_ready is *)
(* positive; the stalled condition holds exactly when messages_ready and   *)
(* consumers are both 0, whatever the flag; the two never hold together;   *)
(* and both alerts carry severity critical.                                *)
C24_NoConsumersXorStalled ==
    [][QueueEvaluationStep =>
          /\ (NoConsumersKey(ev'.q) \in ev'.cond) <=>
                /\ queue_thresholds[ev'.q].no_consumers_alert
                /\ ev'.consumers = 0
                /\ ev'.ready > 0
          /\ (StalledKey(ev'.q) \in ev'.cond) <=> (ev'.ready = 0 /\ ev'.consumers = 0)
          /\ ~(NoConsumersKey(ev'.q) \in ev'.cond /\ StalledKey(ev'.q) \in ev'.cond)
          /\ \A i \in 1..Len(ev'.sent) :
                ev'.sent[i] \in {"no_consumers", "stalled_queue"} =>
                   ev'.severity[i] = "critical"]_vars

\* an empty SUPPORT queue without consumers, whose no_consumers_alert is not
\* set, has been evaluated: stalled_queue alone was sent, as critical
C24_Witness ==
    /\ ev.op = "eval"
    /\ ev.q \notin SeqToSet(core_queues)
    /\ ev.q \in DOMAIN queue_thresholds
    /\ ~queue_thresholds[ev.q].no_consumers_alert
    /\ ev.ready = 0
    /\ ev.consumers = 0
    /\ ev.sent = <<"stalled_queue">>
    /\ ev.severity = <<"critical">>

\* the sum of messages_ready over the first n items of the snapshot
RECURSIVE SumReady(_, _)
SumReady(data, n) == IF n = 0 THEN 0 ELSE SumReady(data, n - 1) + data[n].ready

(* C25: the system_backlog alert. At the end of a cycle the system_backlog *)
(* condition holds exactly when the sum of messages_ready over the         *)
(* snapshot of the cycle is over 10,000; the alert is sent, once, exactly  *)
(* when the condition holds and the system_backlog key has no last-sent    *)
(* time or one more than the cooldown ago, whatever the per-queue keys     *)
(* did in the cycle; the evaluation of a queue neither reads nor changes   *)
(* the system_backlog key; and over a run of regular cycles with the total *)
(* above the threshold the alert is sent once per window of                *)
(* floor(Cooldown / Interval) + 1 cycles.                                  *)
C25_SystemBacklog ==
    [][/\ run'[SystemBacklogKey].n >= 1 =>
             run'[SystemBacklogKey].sent =
                CeilDiv(run'[SystemBacklogKey].n, (Cooldown \div Interval) + 1)
       /\ SystemEvaluationStep =>
             /\ total_backlog = SumReady(queue_data, Len(queue_data))
             /\ (SystemBacklogKey \in ev'.cond) <=> (total_backlog > 10000)
             /\ (SystemBacklogKey \in ev'.fired) <=>
                   /\ total_backlog > 10000
                   /\ \/ SystemBacklogKey \notin DOMAIN last_alert_time
                      \/ now - last_alert_time[SystemBacklogKey] > Cooldown
             /\ Count(ev'.sent, "system_backlog") =
                   IF SystemBacklogKey \in ev'.fired THEN 1 ELSE 0
             /\ \A k \in AllKeys \ SystemKeys : LastSentUnchanged(k)
       /\ QueueEvaluationStep =>
             /\ LastSentUnchanged(SystemBacklogKey)
             /\ Count(ev'.sent, "system_backlog") = 0
             /\ \A k \in ev'.cond :
                   (k \notin DOMAIN last_alert_time) => k \in ev'.fired]_vars

\* the system_backlog alert has fired a second time, in a cycle in which the
\* backlog alert of a queue was suppressed
C25_Witness ==
    /\ ev.op = "system"
    /\ SystemBacklogKey \in ev.fired
    /\ run[SystemBacklogKey].sent = 2
    /\ \E q \in Queues :
          /\ HighBacklogCondition(queue_thresholds, q, 12000)
          /\ BacklogKey(q) \in DOMAIN last_alert_time
          /\ last_alert_time[BacklogKey(q)] < now
          /\ now - last_alert_time[BacklogKey(q)] <= Cooldown
          /\ \E i \in 1..Len(queue_data) :
                queue_data[i].name = q /\ queue_data[i].ready = 12000

\* the CORE queues of the snapshot that have a consumer and hold no more than
\* their high_backlog threshold
C26_Healthy ==
    {i \in 1..Len(queue_data) :
        /\ queue_data[i].name \in SeqToSet(core_queues)
        /\ queue_data[i].consumers > 0
        /\ queue_data[i].ready <=
              GetQueueThreshold(queue_thresholds, queue_data[i].name,
                                "high_backlog", DefaultHighBacklog)}

(* C26, as stated: at the end of a cycle the system_failure condition      *)
(* holds exactly when there is a CORE queue and fewer than half of the     *)
(* CORE queues are healthy, a healthy queue being one with a consumer and  *)
(* with messages_ready not above its high_backlog threshold.               *)
C26_Original ==
    [][SystemEvaluationStep =>
          ((SystemFailureKey \in ev'.cond) <=>
              /\ Len(core_queues) > 0
              /\ 2 * Cardinality(C26_Healthy) < Len(core_queues))]_vars

\* the names of the items of a snapshot
SnapshotNames(data) == {data[i].name : i \in 1..Len(data)}

(* C27: with discovery off the monitored set is the configured names.      *)
(* The snapshot of a cycle holds exactly the queues of the server whose    *)
(* name is in target_queues, whatever else the server holds;               *)
(* target_queues, core_queues, support_queues and queue_thresholds change  *)
(* on a reload only; discovered_queues stays empty; and no                 *)
(* queue_discovery notification is sent.                                   *)
C27_NoDiscovery ==
    [][/\ (ev'.op = "fetch" /\ ev'.outcome = "ok") =>
             SnapshotNames(queue_data') = ev'.server \cap SeqToSet(target_queues)
       /\ (ev'.op = "fetch" /\ ev'.outcome = "empty") =>
             ev'.server \cap SeqToSet(target_queues) = {}
       /\ ev'.op # "reload" =>
             UNCHANGED <<target_queues, core_queues, support_queues, queue_thresholds>>
       /\ discovered_queues' = {}
       /\ Count(ev'.sent, "queue_discovery") = 0]_vars

\* the server holds a queue that matches a discovery pattern and is not
\* configured; the snapshot of the cycle does not hold it
C27_Witness ==
    /\ ev.op = "fetch"
    /\ ev.outcome = "ok"
    /\ "gps_queue_history" \in ev.server
    /\ "gps_queue_history" \notin SnapshotNames(queue_data)
    /\ "gps_queue_history" \notin SeqToSet(target_queues)

C30_Original ==
    [][(config \in ValidFiles) =>
          \A q \in DOMAIN active_alerts' :
             (/\ ~active_alerts'[q].resolved
              /\ (q \notin DOMAIN active_alerts \/ active_alerts[q] # active_alerts'[q]))
             => q \in SeqToSet(target_queues)]_vars

(* C31, as stated: the writer's cache of categories does not outlive a     *)
(* reload: whenever the writer tags the snapshot while the file on disk is *)
(* the loaded configuration, the category it returns (and keeps) for every *)
(* queue of the snapshot is the category that configuration gives it.      *)
C31_Original ==
    [][(ev'.op = "write" /\ influx_writer /\ config_file = config) =>
          \A i \in 1..Len(queue_data) :
             LET q == queue_data[i].name
             IN  /\ q \in DOMAIN queue_categories'
                 /\ queue_categories'[q] =
                       (IF IsCoreQueue(core_queues, q) THEN "CORE" ELSE "SUPPORT")]_vars

\* recovery_time = time.time() - alert_info['timestamp']: the elapsed time a
\* resolution notification sent at time t for the record of q would carry
RecoveryTime(aa, q, t) == t - aa[q].timestamp

(* C32, as stated: the elapsed time of a resolution notification counts    *)
(* from the first firing of the record: a step that finds the record of a  *)
(* queue unresolved and leaves it unresolved with the same kind (a re-fire *)
(* past the cooldown) does not change the elapsed time a later resolution  *)
(* would carry.                                                            *)
C32_Original ==
    [][\A q \in DOMAIN active_alerts :
          (/\ ~active_alerts[q].resolved
           /\ q \in DOMAIN active_alerts'
           /\ ~active_alerts'[q].resolved
           /\ active_alerts'[q].type = active_alerts[q].type)
          => RecoveryTime(active_alerts', q, MaxTime) =
             RecoveryTime(active_alerts, q, MaxTime)]_vars

(* C33, as stated: the tracker keeps a record per kind and queue: after an *)
(* evaluation of a queue, every kind that fired in it has an unresolved    *)
(* record of its own kind for that queue, also when two kinds fired.       *)
C33_Original ==
    ev.op = "eval" =>
       \A i \in 1..Len(ev.sent) :
          ev.sent[i] \in FiringTypes =>
             /\ ev.q \in DOMAIN active_alerts
             /\ active_alerts[ev.q].type = ev.sent[i]
             /\ ~active_alerts[ev.q].resolved

(* C34: a reload, accepted, rejected or unreadable, changes neither the    *)
(* recovery records nor the cooldown timestamps, those of the queues it    *)
(* removes included; and no step of the program deletes a record or a      *)
(* cooldown timestamp.                                                     *)
C34_ReloadLeavesTracker ==
    [][/\ ev'.op = "reload" =>
             (active_alerts' = active_alerts /\ last_alert_time' = last_alert_time)
       /\ DOMAIN active_alerts \subseteq DOMAIN active_alerts'
       /\ DOMAIN last_alert_time \subseteq DOMAIN last_alert_time']_vars

\* a reload has just removed a queue that has an unresolved record and a
\* cooldown timestamp
C34_Witness ==
    /\ ev.op = "reload"
    /\ ev.outcome # "unreadable"
    /\ \E q \in DOMAIN active_alerts :
          /\ q \notin SeqToSet(target_queues)
          /\ ~active_alerts[q].resolved
          /\ \E k \in DOMAIN last_alert_time : k \in QueueKeys(q)

(* C35: a resolution notification is sent for a queue only when the queue  *)
(* has an unresolved record, and sending it marks the record resolved; a   *)
(* record is unresolved only from an evaluation of its queue that          *)
(* attempted a firing notification, at the time the record carries.  So    *)
(* every resolution for a queue follows a firing attempt for that queue    *)
(* that no resolution has answered yet.                                    *)
C35_ResolutionFollowsFiring ==
    [][/\ (QueueEvaluationStep /\ Count(ev'.sent, "recovery") > 0) =>
             /\ ev'.q \in DOMAIN active_alerts
             /\ ~active_alerts[ev'.q].resolved
             /\ active_alerts'[ev'.q].resolved
             /\ Count(ev'.sent, "recovery") = 1
       /\ \A q \in DOMAIN active_alerts' :
             ~active_alerts'[q].resolved =>
                \E k \in QueueKeys(q) :
                   /\ k \in DOMAIN last_alert_time'
                   /\ last_alert_time'[k] = active_alerts'[q].timestamp
       /\ \A q \in DOMAIN active_alerts' :
             (/\ ~active_alerts'[q].resolved
              /\ (q \notin DOMAIN active_alerts \/ active_alerts[q].resolved))
             => /\ QueueEvaluationStep
                /\ ev'.q = q
                /\ \E i \in 1..Len(ev'.sent) : ev'.sent[i] \in FiringTypes]_vars

\* the second resolution for a queue: its record was resolved, was re-armed
\* by a later firing, and the resolution for that firing has just been sent
C35_Witness ==
    /\ ev.op = "eval"
    /\ Count(ev.sent, "recovery") = 1
    /\ ev.had_record
    /\ ~ev.was_resolved
    /\ active_alerts[ev.q].resolved
    /\ active_alerts[ev.q].timestamp > 0
    /\ \E k \in QueueKeys(ev.q) :
          k \in DOMAIN last_alert_time /\ last_alert_time[k] < active_alerts[ev.q].timestamp

(* C36: an evaluation that emits no firing notification creates and        *)
(* re-arms no record: kind and timestamp of every record stay, and a       *)
(* resolved record stays resolved.  When a condition of the queue is true  *)
(* and suppressed by the cooldown, the evaluation sends nothing and leaves *)
(* the records as they are.                                                *)
C36_SuppressedLeavesRecord ==
    [][QueueEvaluationStep =>
          /\ ev'.fired = {} =>
                /\ DOMAIN active_alerts' = DOMAIN active_alerts
                /\ \A q \in DOMAIN active_alerts :
                      /\ active_alerts'[q].type = active_alerts[q].type
                      /\ active_alerts'[q].timestamp = active_alerts[q].timestamp
                      /\ active_alerts[q].resolved => active_alerts'[q].resolved
          /\ (ev'.cond # {} /\ ev'.fired = {}) =>
                /\ active_alerts' = active_alerts
                /\ ev'.sent = << >>]_vars

\* the condition of a queue has come back inside the cooldown window, after
\* the resolution: nothing is sent and the record is still resolved
C36_Witness ==
    /\ ev.op = "eval"
    /\ ev.cond # {}
    /\ ev.fired = {}
    /\ ev.sent = << >>
    /\ ev.was_resolved
    /\ active_alerts[ev.q].resolved
    /\ \E k \in ev.cond : now - last_alert_time[k] <= Cooldown

(* C37: the evaluation that sends a resolution notification leaves the     *)
(* record resolved whether or not the webhook accepts the delivery; and    *)
(* while the record of a queue whose resolution was not delivered is       *)
(* resolved, an evaluation of the queue sends no resolution, and the       *)
(* record stays resolved unless the evaluation fires.                      *)
C37_ResolvedDespiteFailure ==
    [][QueueEvaluationStep =>
          /\ Count(ev'.sent, "recovery") > 0 => active_alerts'[ev'.q].resolved
          /\ (/\ ev'.q \in failed_recoveries
              /\ ev'.q \in DOMAIN active_alerts
              /\ active_alerts[ev'.q].resolved)
             => /\ Count(ev'.sent, "recovery") = 0
                /\ active_alerts'[ev'.q].resolved \/ ev'.fired # {}]_vars

\* the resolution for the queue was not delivered; the webhook works again,
\* the queue still satisfies the recovery predicate, and its evaluation has
\* sent nothing
C37_Witness ==
    /\ ev.op = "eval"
    /\ ev.q \in failed_recoveries
    /\ discord_ok
    /\ ev.was_resolved
    /\ IsRecovered(ev.ready, ev.consumers, ev.threshold)
    /\ ev.sent = << >>
    /\ active_alerts[ev.q].resolved

\* the list holds no name twice
NoDuplicates(seq) == Cardinality(SeqToSet(seq)) = Len(seq)

TrackerCallPcs ==
    {"recovery", "recovery_locked", "recovery_send", "recovery_mark", "recovery_unlock",
     "track", "track_locked", "track_unlock"}

(* C39: every call of check_recovery or track_alert gets the lock and      *)
(* comes back with the lock free, also when the resolution notification is *)
(* not delivered or a statement inside the block raises: whenever the main *)
(* thread is in such a call, it is later out of it with the lock free.     *)
C39_LockNeverStuck ==
    (sp.pc \in TrackerCallPcs) ~> (sp.pc \notin TrackerCallPcs /\ lock = "free")

\* check_recovery holds the lock after it has handed the resolution to a
\* webhook that does not accept it
C39_Witness ==
    /\ sp.pc = "recovery_mark"
    /\ lock = "main"
    /\ ~discord_ok
    /\ sp.sent = << "recovery" >>
    /\ ~active_alerts[sp.q].resolved

(* C40, as stated: a monitor that has exited has handed the shutdown       *)
(* notification to the sender at least once, whenever the signals came and *)
(* whether or not a stop inside cleanup failed.                            *)
C40_Original == proc = "exited" => shutdown_sent >= 1

====
